---- MODULE Spec2Model ----
(***************************************************************************)
(* A model of the ollama2openai gateway: the sliding-window rate limiter,  *)
(* the channel registry and its selector, the flat credential pool, the    *)
(* retry loop of the proxy and the SSE relay of /v1/chat/completions.      *)
(*                                                                         *)
(* Each subsystem has its own variables and its own specification; a       *)
(* specification leaves the variables of the other subsystems unchanged.   *)
(***************************************************************************)
EXTENDS Integers, Sequences, FiniteSets, TLC

(***************************************************************************)
(* Bounds of the model.                                                    *)
(***************************************************************************)
\* last instant of the rate limiter's clock
MaxTime == 9
\* windowMs of the modelled SlidingWindowCounter (RATE_LIMIT_*_WINDOW)
WindowMs == 3
\* maxRequests of the modelled SlidingWindowCounter (RATE_LIMIT_*_MAX)
MaxRequests == 2
\* most reads of one upstream stream body that return data
MaxReads == 2
\* largest maxConcurrent an operator sets on a channel
MaxCap == 2
\* most operator actions on the channel registry in one behaviour
MaxAdminOps == 1
\* most characters of one upstream stream body
MaxBody == 5
\* largest currentIndex found in the persisted key file
MaxCursor == 4
\* most recordSuccess / recordFailure calls on the key store in one behaviour
MaxRecords == 2
\* most recordSuccess / recordFailure calls on the channels in one behaviour
MaxChannelRecords == 7
\* last instant of the token registry's clock
MaxTokenTime == 4
\* largest quotaUsed of a token
MaxQuotaUsed == 3
\* most characters of a model name and of an allowedModels entry
MaxName == 2

VARIABLES
    now,          \* rate limiter: Date.now()
    windows,      \* rate limiter: SlidingWindowCounter.windows, key -> entry
    rlResult,     \* rate limiter: the value the last consume() returned
    allowedLog    \* rate limiter (history): per key, the call times of the
                  \* allowed=true results that lie in (now - WindowMs, now]

rlVars == <<now, windows, rlResult, allowedLog>>

VARIABLES
    channels,     \* channel registry: ChannelManager.channels, id -> channel
    adminOps,     \* channel registry (history): operator actions so far
    req           \* pipeline: per request, the position and locals of its handler

pipeVars == <<channels, adminOps, req>>

VARIABLES
    keys,          \* flat pool: KeyStore.keys, in order
    currentIndex,  \* flat pool: KeyStore.currentIndex, the round-robin cursor
    freq           \* flat pool: per request, the position of its retry loop

flatVars == <<keys, currentIndex, freq>>

VARIABLES
    sInput,       \* line relay (history): the whole upstream body of the stream
    sRest,        \* line relay: the part of the body no read has returned yet
    sBuffer,      \* line relay: processStream's buffer
    sFrames,      \* line relay: the frames written to the response, in order
    sPc           \* line relay: "idle", "relay" (awaiting a read) or "done"

streamVars == <<sInput, sRest, sBuffer, sFrames, sPc>>

VARIABLES
    rrKeys,       \* round robin: KeyStore.keys, an array of credentials
    rrIndex,      \* round robin: KeyStore.currentIndex (keyStore.js)
    rrIndexMod,   \* round robin: KeyStore.currentIndex (the store of part_007)
    rrServed,     \* round robin (history): the latest returns of getNextKey
    rrServedMod,  \* round robin (history): the same for the store of part_007
    rrPc          \* round robin: "boot" before the constructor ran, then "run"

rrVars == <<rrKeys, rrIndex, rrIndexMod, rrServed, rrServedMod, rrPc>>

VARIABLES
    storeKeys,     \* key store: KeyStore.keys, an array of credentials
    storeIndex,    \* key store: KeyStore.currentIndex
    storeCache,    \* key store: KeyStore._poolCache
    storeRet,      \* key store: what the latest getNextKey returned
    storeRecords,  \* key store: recordSuccess / recordFailure calls so far
    storePc        \* key store: "boot" before the constructor ran, then "run"

storeVars == <<storeKeys, storeIndex, storeCache, storeRet, storeRecords, storePc>>

VARIABLES
    qChannels,  \* channel health: ChannelManager.channels
    qRecords    \* channel health: recordSuccess / recordFailure calls so far

qVars == <<qChannels, qRecords>>

VARIABLES
    tTokens,  \* token registry: TokenManager.tokens, by token id
    tNow,     \* token registry: the clock, new Date()
    tResult,  \* token registry: the call and the return of the latest validateToken
    tPc       \* token registry: "boot" before the constructor ran, then "run"

tVars == <<tTokens, tNow, tResult, tPc>>

VARIABLES
    gPolicy,   \* /v1 gates: the access control policy
    gConfig,   \* /v1 gates: API_TOKEN and the RATE_LIMIT_*_ENABLED settings
    gWindows,  \* /v1 gates: the windows of the three SlidingWindowCounters
    gLog,      \* /v1 gates (history): the requests that went through the chain
    gPc        \* /v1 gates: "boot" before the process listens, then "run"

gVars == <<gPolicy, gConfig, gWindows, gLog, gPc>>

VARIABLES
    scopeReq  \* model scoping: the latest request to an endpoint that takes a model

scopeVars == <<scopeReq>>

VARIABLES
    acPolicy,  \* access control: mode, whitelist and blacklist
    acIp,      \* access control: the address isAllowed was called with
    acResult   \* access control: what isAllowed returned

acVars == <<acPolicy, acIp, acResult>>

VARIABLES
    xCopy,  \* translator: the copy of the translator functions in use
    xOp,    \* translator: the function being applied, "none" between calls
    xIn,    \* translator: its input
    xOut    \* translator: its output

xVars == <<xCopy, xOp, xIn, xOut>>

VARIABLES
    selChannels,  \* selector: the channels, with their model lists and mappings
    selReq        \* selector: one request through the attempts of proxyWithRetry

selVars == <<selChannels, selReq>>

VARIABLES
    ckConfig,   \* limiter: which of the three limits the environment enables
    ckWindows,  \* limiter: the windows of the three counters
    ckNow,      \* limiter: Date.now()
    ckCall      \* limiter: the last call of check and what it returned

ckVars == <<ckConfig, ckWindows, ckNow, ckCall>>

VARIABLES
    ksKeys,    \* key file: the credentials, each with its key and baseUrl
    ksUuids,   \* key file: how many ids crypto.randomUUID has handed out
    ksRet      \* key file: what the last call returned

ksVars == <<ksKeys, ksUuids, ksRet>>

VARIABLES
    wbKeys,       \* write-behind: the in-memory keys, as the number of mutations so far
    wbFile,       \* write-behind: the content of keys.json, likewise
    wbSaveTimer,  \* write-behind: when _saveTimer is due, 0 when it is null
    wbWriting,    \* write-behind: the contents fs.writeFile is still writing
    wbNow,        \* write-behind: the clock
    wbPhase       \* write-behind: "run", "draining" after gracefulShutdown, "exited"

wbVars == <<wbKeys, wbFile, wbSaveTimer, wbWriting, wbNow, wbPhase>>

VARIABLES
    uTokens,  \* usage: the tokens of the registry, with their totals
    uStats,   \* usage: _usageStats, per token and day
    uToday,   \* usage: the current day
    uIssued,  \* usage: the ids crypto.randomUUID has handed out
    uRet      \* usage: the last call

uVars == <<uTokens, uStats, uToday, uIssued, uRet>>

VARIABLES
    lruMaxSize,  \* cache: maxSize, 0 before the cache is constructed
    lruCache,    \* cache: the entries of the Map, in insertion order
    lruNow,      \* cache: Date.now()
    lruRet,      \* cache: the last call and what it returned
    lruUsed      \* cache: the keys set or read with success, least recent first

lruVars == <<lruMaxSize, lruCache, lruNow, lruRet, lruUsed>>

vars == <<rlVars, pipeVars, flatVars, streamVars, rrVars, storeVars, qVars, tVars, gVars, scopeVars, acVars, xVars, selVars, ckVars, ksVars, wbVars, uVars, lruVars>>

\* what the actions of one subsystem leave unchanged
notRL == <<pipeVars, flatVars, streamVars, rrVars, storeVars, qVars, tVars, gVars, scopeVars, acVars, xVars, selVars, ckVars, ksVars, wbVars, uVars, lruVars>>

notPipe == <<rlVars, flatVars, streamVars, rrVars, storeVars, qVars, tVars, gVars, scopeVars, acVars, xVars, selVars, ckVars, ksVars, wbVars, uVars, lruVars>>

notFlat == <<rlVars, pipeVars, streamVars, rrVars, storeVars, qVars, tVars, gVars, scopeVars, acVars, xVars, selVars, ckVars, ksVars, wbVars, uVars, lruVars>>

notStream == <<rlVars, pipeVars, flatVars, rrVars, storeVars, qVars, tVars, gVars, scopeVars, acVars, xVars, selVars, ckVars, ksVars, wbVars, uVars, lruVars>>

notRR == <<rlVars, pipeVars, flatVars, streamVars, storeVars, qVars, tVars, gVars, scopeVars, acVars, xVars, selVars, ckVars, ksVars, wbVars, uVars, lruVars>>

notStore == <<rlVars, pipeVars, flatVars, streamVars, rrVars, qVars, tVars, gVars, scopeVars, acVars, xVars, selVars, ckVars, ksVars, wbVars, uVars, lruVars>>

notQ == <<rlVars, pipeVars, flatVars, streamVars, rrVars, storeVars, tVars, gVars, scopeVars, acVars, xVars, selVars, ckVars, ksVars, wbVars, uVars, lruVars>>

notT == <<rlVars, pipeVars, flatVars, streamVars, rrVars, storeVars, qVars, gVars, scopeVars, acVars, xVars, selVars, ckVars, ksVars, wbVars, uVars, lruVars>>

notG == <<rlVars, pipeVars, flatVars, streamVars, rrVars, storeVars, qVars, scopeVars, acVars, xVars, selVars, ckVars, ksVars, wbVars, uVars, lruVars>>

notScope == <<rlVars, pipeVars, flatVars, streamVars, rrVars, storeVars, qVars, tVars, gVars, acVars, xVars, selVars, ckVars, ksVars, wbVars, uVars, lruVars>>

notAc == <<rlVars, pipeVars, flatVars, streamVars, rrVars, storeVars, qVars, tVars, gVars, scopeVars, xVars, selVars, ckVars, ksVars, wbVars, uVars, lruVars>>

notX == <<rlVars, pipeVars, flatVars, streamVars, rrVars, storeVars, qVars, tVars, gVars, scopeVars, acVars, selVars, ckVars, ksVars, wbVars, uVars, lruVars>>

notSel == <<rlVars, pipeVars, flatVars, streamVars, rrVars, storeVars, qVars, tVars, gVars, scopeVars, acVars, xVars, ckVars, ksVars, wbVars, uVars, lruVars>>

notCk == <<rlVars, pipeVars, flatVars, streamVars, rrVars, storeVars, qVars, tVars, gVars, scopeVars, acVars, xVars, selVars, ksVars, wbVars, uVars, lruVars>>

notKs == <<rlVars, pipeVars, flatVars, streamVars, rrVars, storeVars, qVars, tVars, gVars, scopeVars, acVars, xVars, selVars, ckVars, wbVars, uVars, lruVars>>

notWb == <<rlVars, pipeVars, flatVars, streamVars, rrVars, storeVars, qVars, tVars, gVars, scopeVars, acVars, xVars, selVars, ckVars, ksVars, uVars, lruVars>>

notU == <<rlVars, pipeVars, flatVars, streamVars, rrVars, storeVars, qVars, tVars, gVars, scopeVars, acVars, xVars, selVars, ckVars, ksVars, wbVars, lruVars>>

notLru == <<rlVars, pipeVars, flatVars, streamVars, rrVars, storeVars, qVars, tVars, gVars, scopeVars, acVars, xVars, selVars, ckVars, ksVars, wbVars, uVars>>

(***************************************************************************)
(* Rate limiter: src/src/core/rateLimiter.js                               *)
(***************************************************************************)
RLKeys == {"global", "10.0.0.1"}

NoEntry == [present |-> FALSE, windowStart |-> 0, requests |-> <<>>]

NoResult == [allowed |-> FALSE, remaining |-> 0, retryAfter |-> 0, key |-> "none"]

\* Math.ceil(a / b) for b > 0
CeilDiv(a, b) == IF a % b = 0 THEN a \div b ELSE (a \div b) + 1

\* entry.requests.filter(t => t > windowStart)
FilterNewer(reqs, windowStart) == SelectSeq(reqs, LAMBDA t : t > windowStart)

\* lines 21-27: a missing entry, or one created before now - windowMs, is
\* replaced by a fresh entry with no requests
StartWindow(entry, t) ==
    IF ~entry.present \/ entry.windowStart < t - WindowMs
    THEN [present |-> TRUE, windowStart |-> t, requests |-> <<>>]
    ELSE entry

\* consume(key) at time t: the entry stored afterwards and the value returned
ConsumeAt(entry, t) ==
    LET e0 == StartWindow(entry, t)
        kept == FilterNewer(e0.requests, t - WindowMs)
        \* entry.requests[0] || now
        oldest == IF Len(kept) = 0 \/ kept[1] = 0 THEN t ELSE kept[1]
    IN  IF Len(kept) >= MaxRequests
        THEN [entry |-> [e0 EXCEPT !.requests = kept],
              allowed |-> FALSE,
              remaining |-> 0,
              retryAfter |-> CeilDiv(oldest + WindowMs - t, 1000)]
        ELSE [entry |-> [e0 EXCEPT !.requests = Append(kept, t)],
              allowed |-> TRUE,
              remaining |-> MaxRequests - (Len(kept) + 1),
              retryAfter |-> 0]

\* the clock advances
Tick ==
    /\ now < MaxTime
    /\ now' = now + 1
    /\ allowedLog' = [k \in RLKeys |-> FilterNewer(allowedLog[k], now' - WindowMs)]
    /\ UNCHANGED <<windows, rlResult, notRL>>

\* SlidingWindowCounter.consume(k)
Consume(k) ==
    LET r == ConsumeAt(windows[k], now)
    IN  /\ windows' = [windows EXCEPT ![k] = r.entry]
        /\ rlResult' = [allowed |-> r.allowed, remaining |-> r.remaining,
                        retryAfter |-> r.retryAfter, key |-> k]
        /\ allowedLog' = IF r.allowed
                         THEN [allowedLog EXCEPT ![k] = Append(@, now)]
                         ELSE allowedLog
        /\ UNCHANGED <<now, notRL>>

ConsumeAny == \E k \in RLKeys : Consume(k)

\* SlidingWindowCounter.cleanup(): entries created before now - 2*windowMs go
Cleanup ==
    /\ \E k \in RLKeys : windows[k].present /\ windows[k].windowStart < now - WindowMs * 2
    /\ windows' = [k \in RLKeys |->
                     IF windows[k].present /\ windows[k].windowStart < now - WindowMs * 2
                     THEN NoEntry ELSE windows[k]]
    /\ UNCHANGED <<now, rlResult, allowedLog, notRL>>

RLNext == Tick \/ ConsumeAny \/ Cleanup


(***************************************************************************)
(* Channel registry and selector: src/src/core/channelManager.js           *)
(***************************************************************************)
Channels == {"c1", "c2"}

None == "none"

\* createChannel: a new channel, enabled and healthy, with no request in flight
NewChannel(priority, maxConcurrent) ==
    [enabled |-> TRUE, healthy |-> TRUE, priority |-> priority, weight |-> 10,
     maxConcurrent |-> maxConcurrent, currentConcurrent |-> 0,
     totalRequests |-> 0, failedRequests |-> 0]

\* mutant of Eligible: the filter without the concurrency cap of line 189
EligibleIgnoringCap(chs) ==
    {c \in Channels : chs[c].enabled /\ chs[c].healthy}

\* the filter of selectChannel (lines 187-205); every modelled channel has an
\* empty model list, so every model is permitted
Eligible(chs) ==
    {c \in Channels :
        /\ chs[c].enabled
        /\ chs[c].healthy
        /\ ~(chs[c].maxConcurrent > 0 /\ chs[c].currentConcurrent >= chs[c].maxConcurrent)}

\* lines 209-214: the eligible channels of the highest priority
TopChannels(chs) ==
    {c \in Eligible(chs) : \A d \in Eligible(chs) : chs[d].priority <= chs[c].priority}

\* selectChannel: the channels it can return (the empty set: it returns null).
\* Among several top channels the weighted draw can return any channel of
\* positive weight, and the first one otherwise.
SelectChannel(chs) ==
    IF Cardinality(TopChannels(chs)) <= 1 THEN TopChannels(chs)
    ELSE LET positive == {c \in TopChannels(chs) : chs[c].weight > 0}
         IN  IF positive = {} THEN TopChannels(chs) ELSE positive

\* acquireConcurrency
AcquireConcurrency(chs, c) ==
    [chs EXCEPT ![c].currentConcurrent = @ + 1]

\* recordSuccess(channelId)
ChannelRecordSuccess(chs, c) ==
    [chs EXCEPT ![c].totalRequests = @ + 1,
                ![c].healthy = TRUE,
                ![c].currentConcurrent = IF @ > 0 THEN @ - 1 ELSE @]

\* recordFailure(channelId): failedRequests / totalRequests > 0.8 is
\* 5 * failedRequests > 4 * totalRequests
ChannelRecordFailure(chs, c) ==
    LET total == chs[c].totalRequests + 1
        failed == chs[c].failedRequests + 1
    IN  [chs EXCEPT ![c].totalRequests = total,
                    ![c].failedRequests = failed,
                    ![c].currentConcurrent = IF @ > 0 THEN @ - 1 ELSE @,
                    ![c].healthy = IF failed > 5 /\ 5 * failed > 4 * total
                                   THEN FALSE ELSE @]

(***************************************************************************)
(* Request pipeline: src/unnamed/part_002 (routes/openai.js, enterprise)   *)
(* One action per stretch of the handler between two awaits.               *)
(***************************************************************************)
Reqs == {"r1", "r2"}

MAX_RETRIES == 2

\* fetch() threw: the attempt has no HTTP status
TransportError == 0

HttpFailures == {401, 403, 500}

Outcomes == {200, TransportError} \cup HttpFailures

\* no attempt has finished yet
NoOutcome == -1

\* req.tokenObj: the first request carries an auth token, the second none
HasToken(r) == r = "r1"

\* the values of stream a request may carry: the second request never streams
StreamChoices(r) == IF r = "r1" THEN BOOLEAN ELSE {FALSE}

LineKinds == {"content", "done", "bad"}

InitReq ==
    [pc |-> "idle", isStream |-> FALSE,
     attempt |-> 0, backend |-> None,
     lastOutcome |-> NoOutcome,   \* history: outcome of the latest finished attempt
     lastHttpFailure |-> NoOutcome,  \* history: latest non-2xx status received
     noBackend |-> FALSE,     \* history: resolveBackend returned null
     result |-> 0,            \* proxyWithRetry: 200 returned, or the status thrown
     response |-> 0,          \* status of the response sent to the client
     aborted |-> FALSE, streamSuccess |-> FALSE, finalUsage |-> FALSE,
     frames |-> <<>>,         \* frames written to the response, in order
     ended |-> FALSE,         \* res.writableEnded
     reads |-> 0,             \* reads of the upstream body that returned data
     readsAfterAbort |-> 0,   \* history: such reads completed after the close event
     relayEnd |-> "none",     \* history: how processStream ended: "eof" or "error"
     nSuccess |-> 0,          \* history: recordBackendSuccess calls of this request
     nFailure |-> 0,          \* history: recordBackendFailure calls of this request
     nUsage |-> 0]            \* history: tokenManager.recordUsage calls of this request

\* recordBackendSuccess(backend) for a channel backend
RecordBackendSuccess(chs, c) == ChannelRecordSuccess(chs, c)

\* recordBackendFailure(backend) for a channel backend
RecordBackendFailure(chs, c) == ChannelRecordFailure(chs, c)

\* mutant of RetryableStatus: only a 401 is retried
RetryableStatusOnly401(status, attempt) ==
    status = 401 /\ attempt < MAX_RETRIES

\* proxyWithRetry line 140: an upstream 401 or 403 is retried while attempts remain
RetryableStatus(status, attempt) ==
    (status = 401 \/ status = 403) /\ attempt < MAX_RETRIES

\* mutant of RetryableTransport: one retry too many
RetryableTransportOffByOne(attempt) == attempt <= MAX_RETRIES

\* proxyWithRetry line 155: a transport error is retried while attempts remain
RetryableTransport(attempt) == attempt < MAX_RETRIES

\* lines 121-133 and resolveBackend: one iteration of the retry loop up to the
\* await of fetch, for attempt number a. The flat key store holds no key, so
\* when no channel is selected resolveBackend returns null (503 is thrown).
BeginAttempt(r, q, chs, a) ==
    IF SelectChannel(chs) = {}
    THEN /\ req' = [req EXCEPT ![r] = [q EXCEPT !.pc = "done", !.attempt = a,
                                                !.backend = None,
                                                !.noBackend = TRUE,
                                                !.result = 503, !.response = 503]]
         /\ channels' = chs
    ELSE \E c \in SelectChannel(chs) :
         /\ req' = [req EXCEPT ![r] = [q EXCEPT !.pc = "fetch", !.attempt = a,
                                                !.backend = c]]
         /\ channels' = AcquireConcurrency(chs, c)

\* POST /v1/chat/completions, lines 228-263 and the first loop iteration
StartRequest(r) ==
    /\ req[r].pc = "idle"
    /\ \E stream \in StreamChoices(r) :
         BeginAttempt(r, [req[r] EXCEPT !.isStream = stream], channels, 0)
    /\ UNCHANGED <<adminOps, notPipe>>

\* lines 133-149: fetch resolved with a 2xx response
UpstreamOk(r) ==
    /\ req[r].pc = "fetch"
    /\ LET q == [req[r] EXCEPT !.lastOutcome = 200, !.result = 200]
       IN  IF q.isStream
           THEN \* lines 293-310: headers flushed, close listener installed,
                \* processStream awaits its first read
                /\ req' = [req EXCEPT ![r] = [q EXCEPT !.pc = "relay", !.response = 200]]
                /\ UNCHANGED channels
           ELSE \* line 148, then the handler awaits ollamaRes.json()
                /\ req' = [req EXCEPT ![r] = [q EXCEPT !.pc = "body",
                                                       !.nSuccess = @ + 1]]
                /\ channels' = RecordBackendSuccess(channels, q.backend)
    /\ UNCHANGED <<adminOps, notPipe>>

\* lines 135-146: fetch resolved with a non-2xx status
UpstreamHttpFailure(r) ==
    /\ req[r].pc = "fetch"
    /\ \E status \in HttpFailures :
         LET q == [req[r] EXCEPT !.lastOutcome = status,
                                 !.lastHttpFailure = status,
                                 !.nFailure = @ + 1]
             chs == RecordBackendFailure(channels, q.backend)
         IN  IF RetryableStatus(status, q.attempt)
             THEN BeginAttempt(r, q, chs, q.attempt + 1)
             ELSE /\ req' = [req EXCEPT ![r] = [q EXCEPT !.pc = "done",
                                                         !.result = status,
                                                         !.response = status]]
                  /\ channels' = chs
    /\ UNCHANGED <<adminOps, notPipe>>

\* lines 150-161: fetch threw (connection failure or timeout)
UpstreamTransportError(r) ==
    /\ req[r].pc = "fetch"
    /\ LET q == [req[r] EXCEPT !.lastOutcome = TransportError,
                               !.nFailure = @ + 1]
           chs == RecordBackendFailure(channels, q.backend)
       IN  IF RetryableTransport(q.attempt)
           THEN BeginAttempt(r, q, chs, q.attempt + 1)
           ELSE /\ req' = [req EXCEPT ![r] = [q EXCEPT !.pc = "done",
                                                       !.result = 504,
                                                       !.response = 504]]
                /\ channels' = chs
    /\ UNCHANGED <<adminOps, notPipe>>

\* lines 266-289: the non-streaming body parsed
BodyParsed(r) ==
    /\ req[r].pc = "body"
    /\ req' = [req EXCEPT ![r].pc = "done", ![r].response = 200,
                          ![r].nSuccess = @ + 1,
                          ![r].nUsage = IF HasToken(r) THEN @ + 1 ELSE @]
    /\ channels' = RecordBackendSuccess(channels, req[r].backend)
    /\ UNCHANGED <<adminOps, notPipe>>

\* line 266 throws (the body is no JSON), caught at lines 365-372
BodyFails(r) ==
    /\ req[r].pc = "body"
    /\ req' = [req EXCEPT ![r].pc = "done", ![r].response = 500]
    /\ UNCHANGED <<channels, adminOps, notPipe>>

\* the onLine callback, lines 312-324, on one upstream line; a line that is
\* no JSON makes JSON.parse throw, which processStream catches (lines 194-196)
OnLine(q, kind) ==
    IF q.aborted \/ kind = "bad" THEN q
    ELSE [q EXCEPT !.frames = Append(@, "data"),
                   !.streamSuccess = IF kind = "done" THEN TRUE ELSE @,
                   !.finalUsage = IF kind = "done" THEN TRUE ELSE @]

\* mutant of EndRecordsSuccess: success is recorded whenever the relay ends
EndRecordsSuccessAlways(q) == TRUE

\* the onEnd callback, line 329: is success recorded on the backend
EndRecordsSuccess(q) == q.streamSuccess \/ ~q.aborted

\* the onEnd callback, line 333: is usage recorded on the token
EndRecordsUsage(r, q) == HasToken(r) /\ q.finalUsage

\* mutant of EndFrames: [DONE] is written without looking at aborted
EndFramesIgnoringAbort(q) ==
    IF ~q.ended THEN Append(q.frames, "[DONE]") ELSE q.frames

\* the onEnd callback, lines 348-351: the frames of the response afterwards
EndFrames(q) ==
    IF ~q.aborted /\ ~q.ended THEN Append(q.frames, "[DONE]") ELSE q.frames

\* mutant of ErrorFrames: the error frame is not followed by [DONE]
ErrorFramesWithoutDone(q) ==
    IF ~q.aborted /\ ~q.ended THEN Append(q.frames, "error") ELSE q.frames

\* the onError callback, lines 357-361: the frames of the response afterwards
ErrorFrames(q) ==
    IF ~q.aborted /\ ~q.ended THEN q.frames \o <<"error", "[DONE]">> ELSE q.frames

\* the request's close event reaching the listener of line 308, which is
\* installed once the streaming response has started; the handler has no
\* listener before that, so an earlier close event changes none of its state
ClientClose(r) ==
    /\ req[r].pc = "relay"
    /\ ~req[r].aborted
    /\ req' = [req EXCEPT ![r].aborted = TRUE]
    /\ UNCHANGED <<channels, adminOps, notPipe>>

\* processStream lines 177, 188-197: a read returns one line of the body
StreamRead(r) ==
    /\ req[r].pc = "relay"
    /\ req[r].reads < MaxReads
    /\ \E kind \in LineKinds :
         req' = [req EXCEPT ![r] =
                    [OnLine(req[r], kind) EXCEPT
                        !.reads = @ + 1,
                        !.readsAfterAbort = IF req[r].aborted THEN @ + 1 ELSE @]]
    /\ UNCHANGED <<channels, adminOps, notPipe>>

\* processStream lines 178-185: a read returns done, onEnd runs
StreamEnd(r) ==
    /\ req[r].pc = "relay"
    /\ LET q == req[r]
       IN  /\ req' = [req EXCEPT ![r] =
                        [q EXCEPT !.pc = "done", !.relayEnd = "eof",
                                  !.nSuccess = IF EndRecordsSuccess(q) THEN @ + 1 ELSE @,
                                  !.nUsage = IF EndRecordsUsage(r, q) THEN @ + 1 ELSE @,
                                  !.frames = EndFrames(q),
                                  !.ended = q.ended \/ ~q.aborted]]
           /\ channels' = IF EndRecordsSuccess(q)
                          THEN RecordBackendSuccess(channels, q.backend)
                          ELSE channels
    /\ UNCHANGED <<adminOps, notPipe>>

\* processStream lines 199-201: a read throws, onError runs
StreamError(r) ==
    /\ req[r].pc = "relay"
    /\ LET q == req[r]
       IN  /\ req' = [req EXCEPT ![r] =
                        [q EXCEPT !.pc = "done", !.relayEnd = "error",
                                  !.nFailure = @ + 1,
                                  !.frames = ErrorFrames(q),
                                  !.ended = q.ended \/ ~q.aborted]]
           /\ channels' = RecordBackendFailure(channels, q.backend)
    /\ UNCHANGED <<adminOps, notPipe>>

(***************************************************************************)
(* Operator actions on the channel registry (admin routes)                 *)
(***************************************************************************)
\* updateChannel(id, {maxConcurrent})
UpdateMaxConcurrent(c) ==
    /\ adminOps < MaxAdminOps
    /\ adminOps' = adminOps + 1
    /\ \E m \in 0..MaxCap :
         /\ m # channels[c].maxConcurrent
         /\ channels' = [channels EXCEPT ![c].maxConcurrent = m]
    /\ UNCHANGED <<req, notPipe>>

\* updateChannel(id, {enabled})
UpdateEnabled(c) ==
    /\ adminOps < MaxAdminOps
    /\ adminOps' = adminOps + 1
    /\ channels' = [channels EXCEPT ![c].enabled = ~@]
    /\ UNCHANGED <<req, notPipe>>

\* checkAllHealth, one channel's probe: healthy = res.ok
HealthProbe(c) ==
    /\ adminOps < MaxAdminOps
    /\ adminOps' = adminOps + 1
    /\ channels[c].enabled
    /\ \E ok \in BOOLEAN :
         /\ ok # channels[c].healthy
         /\ channels' = [channels EXCEPT ![c].healthy = ok]
    /\ UNCHANGED <<req, notPipe>>

\* resetHealth
ResetHealth ==
    /\ adminOps < MaxAdminOps
    /\ adminOps' = adminOps + 1
    /\ \E c \in Channels : ~channels[c].healthy \/ channels[c].currentConcurrent # 0
    /\ channels' = [c \in Channels |->
                      [channels[c] EXCEPT !.healthy = TRUE, !.currentConcurrent = 0]]
    /\ UNCHANGED <<req, notPipe>>

\* the registry after two createChannel calls: c1 of priority 1 and uncapped,
\* c2 of priority 0 and capped at one request
InitChannels ==
    [c \in Channels |-> IF c = "c1" THEN NewChannel(1, 0) ELSE NewChannel(0, 1)]

Request(r) ==
    \/ StartRequest(r)
    \/ UpstreamOk(r)
    \/ UpstreamHttpFailure(r)
    \/ UpstreamTransportError(r)
    \/ BodyParsed(r)
    \/ BodyFails(r)
    \/ ClientClose(r)
    \/ StreamRead(r)
    \/ StreamEnd(r)
    \/ StreamError(r)

Admin(c) ==
    \/ UpdateMaxConcurrent(c)
    \/ UpdateEnabled(c)
    \/ HealthProbe(c)

PipeNext ==
    \/ \E r \in Reqs : Request(r)
    \/ \E c \in Channels : Admin(c)
    \/ ResetHealth

(***************************************************************************)
(* Flat credential pool: src/src/core/keyStore.js, and the retry loop of   *)
(* src/src/routes/openai.js over it                                        *)
(***************************************************************************)
FKeys == {"k1", "k2"}

\* the order of KeyStore.keys
KeyOrder == <<"k1", "k2">>

FReqs == {"f1", "f2"}

\* parseKeyString: a new credential, enabled and healthy
NewKey == [enabled |-> TRUE, healthy |-> TRUE, totalRequests |-> 0, failedRequests |-> 0]

InitFlatReq ==
    [pc |-> "idle", attempt |-> 0, keyId |-> None,
     lastOutcome |-> NoOutcome,  \* history: outcome of the latest finished attempt
     prevKey |-> None,           \* history: credential of the latest finished attempt
     poolSize |-> 0,             \* history: size of the pool keyId was picked from
     result |-> 0]               \* proxyWithRetry: 200 returned, or the status thrown

\* getNextKey lines 353-357: enabled and healthy credentials in order, or,
\* when there is none, the enabled ones
Pool(ks) ==
    LET enabledHealthy == SelectSeq(KeyOrder, LAMBDA k : ks[k].enabled /\ ks[k].healthy)
    IN  IF Len(enabledHealthy) > 0 THEN enabledHealthy
        ELSE SelectSeq(KeyOrder, LAMBDA k : ks[k].enabled)

\* getNextKey lines 363-365: the cursor, reset when outside the pool
ClampIndex(idx, pool) == IF idx >= Len(pool) \/ idx < 0 THEN 0 ELSE idx

\* getNextKey: the credential returned (None for null) and the cursor afterwards
GetNextKey(ks, idx) ==
    LET pool == Pool(ks)
    IN  IF Len(pool) = 0 THEN [key |-> None, index |-> idx, poolSize |-> 0]
        ELSE [key |-> pool[ClampIndex(idx, pool) + 1],
              index |-> (ClampIndex(idx, pool) + 1) % Len(pool),
              poolSize |-> Len(pool)]

\* KeyStore.recordSuccess
KeyRecordSuccess(ks, k) ==
    [ks EXCEPT ![k].totalRequests = @ + 1, ![k].healthy = TRUE]

\* KeyStore.recordFailure
KeyRecordFailure(ks, k) ==
    LET total == ks[k].totalRequests + 1
        failed == ks[k].failedRequests + 1
    IN  [ks EXCEPT ![k].totalRequests = total,
                   ![k].failedRequests = failed,
                   ![k].healthy = IF failed > 5 /\ 5 * failed > 4 * total
                                  THEN FALSE ELSE @]

\* routes/openai.js lines 93-100: one iteration of the retry loop up to the
\* await of fetch, for attempt number a
FlatBeginAttempt(f, q, ks, a) ==
    LET got == GetNextKey(ks, currentIndex)
    IN  /\ currentIndex' = got.index
        /\ keys' = ks
        /\ freq' = [freq EXCEPT ![f] =
                      IF got.key = None
                      THEN [q EXCEPT !.pc = "done", !.attempt = a, !.keyId = None,
                                     !.poolSize = 0, !.result = 503]
                      ELSE [q EXCEPT !.pc = "fetch", !.attempt = a, !.keyId = got.key,
                                     !.poolSize = got.poolSize]]

\* a handler calls proxyWithRetry: the first loop iteration
FlatStart(f) ==
    /\ freq[f].pc = "idle"
    /\ FlatBeginAttempt(f, freq[f], keys, 0)
    /\ UNCHANGED notFlat

\* routes/openai.js lines 100-122: fetch resolved with a 2xx response
FlatUpstreamOk(f) ==
    /\ freq[f].pc = "fetch"
    /\ freq' = [freq EXCEPT ![f].pc = "done", ![f].lastOutcome = 200, ![f].result = 200]
    /\ keys' = KeyRecordSuccess(keys, freq[f].keyId)
    /\ UNCHANGED <<currentIndex, notFlat>>

\* routes/openai.js lines 102-113: fetch resolved with a non-2xx status
FlatUpstreamHttpFailure(f) ==
    /\ freq[f].pc = "fetch"
    /\ \E status \in HttpFailures :
         LET q == [freq[f] EXCEPT !.lastOutcome = status, !.prevKey = freq[f].keyId]
             ks == KeyRecordFailure(keys, q.keyId)
         IN  IF RetryableStatus(status, q.attempt)
             THEN FlatBeginAttempt(f, q, ks, q.attempt + 1)
             ELSE /\ freq' = [freq EXCEPT ![f] = [q EXCEPT !.pc = "done", !.result = status]]
                  /\ keys' = ks
                  /\ UNCHANGED currentIndex
    /\ UNCHANGED notFlat

\* routes/openai.js lines 123-135: fetch threw
FlatUpstreamTransportError(f) ==
    /\ freq[f].pc = "fetch"
    /\ LET q == [freq[f] EXCEPT !.lastOutcome = TransportError, !.prevKey = freq[f].keyId]
           ks == KeyRecordFailure(keys, q.keyId)
       IN  IF RetryableTransport(q.attempt)
           THEN FlatBeginAttempt(f, q, ks, q.attempt + 1)
           ELSE /\ freq' = [freq EXCEPT ![f] = [q EXCEPT !.pc = "done", !.result = 504]]
                /\ keys' = ks
                /\ UNCHANGED currentIndex
    /\ UNCHANGED notFlat

\* toggleKey(id)
ToggleKey(k) ==
    /\ keys' = [keys EXCEPT ![k].enabled = ~@]
    /\ UNCHANGED <<currentIndex, freq, notFlat>>

FlatNext ==
    \/ \E f \in FReqs : FlatStart(f)
    \/ \E f \in FReqs : FlatUpstreamOk(f)
    \/ \E f \in FReqs : FlatUpstreamHttpFailure(f)
    \/ \E f \in FReqs : FlatUpstreamTransportError(f)
    \/ \E k \in FKeys : ToggleKey(k)

(***************************************************************************)
(* Line relay: processStream of src/unnamed/part_002 with the onLine and   *)
(* onEnd callbacks of the chat handler, the client staying connected.      *)
(* A body is a sequence of characters; a frame is the chunk parsed from    *)
(* one line.                                                               *)
(***************************************************************************)
\* characters of a body: "a" and "b" make up JSON chunks, "x" is text that is
\* no JSON, then whitespace and the line separator
StreamChars == {"a", "b", "x", " ", "\n"}

Bodies == UNION {[1..n -> StreamChars] : n \in 0..MaxBody}

\* the terminator frame data: [DONE]
DoneFrame == <<"[DONE]">>

RECURSIVE TrimStart(_)
TrimStart(str) ==
    IF str # <<>> /\ Head(str) = " " THEN TrimStart(Tail(str)) ELSE str

RECURSIVE TrimEnd(_)
TrimEnd(str) ==
    IF str # <<>> /\ str[Len(str)] = " "
    THEN TrimEnd(SubSeq(str, 1, Len(str) - 1)) ELSE str

\* String.prototype.trim on a string without line separators
Trim(str) == TrimEnd(TrimStart(str))

\* JSON.parse(line) returns (it throws otherwise): whitespace around the
\* value is allowed, anything else that is no JSON is not
Parses(line) ==
    /\ Trim(line) # <<>>
    /\ \A i \in 1..Len(Trim(line)) : Trim(line)[i] \in {"a", "b"}

\* buffer.split('\n')
RECURSIVE Split(_)
Split(str) ==
    IF \A i \in 1..Len(str) : str[i] # "\n" THEN <<str>>
    ELSE LET i == CHOOSE i \in 1..Len(str) :
                     str[i] = "\n" /\ \A j \in 1..(i - 1) : str[j] # "\n"
         IN  <<SubSeq(str, 1, i - 1)>> \o Split(SubSeq(str, i + 1, Len(str)))

\* try { onLine(line) } catch: the line's chunk is written as one frame; a
\* line that JSON.parse rejects throws before any write
TryOnLine(frames, line) ==
    IF Parses(line) THEN Append(frames, Trim(line)) ELSE frames

\* the for loop of processStream over the complete lines of one read
RECURSIVE RelayLines(_, _)
RelayLines(frames, lines) ==
    IF lines = <<>> THEN frames
    ELSE RelayLines(IF Trim(Head(lines)) = <<>> THEN frames
                    ELSE TryOnLine(frames, Head(lines)),
                    Tail(lines))

\* mutant of KeepLast: the partial last line is not carried to the next read
KeepLastDropped(lines) == <<>>

\* buffer = lines.pop() || ''
KeepLast(lines) == lines[Len(lines)]

\* the flush of the buffer when the body ends
FlushBuffer(frames, buffer) ==
    IF Trim(buffer) # <<>> THEN TryOnLine(frames, buffer) ELSE frames

\* a streaming response starts over some upstream body
StreamOpen ==
    /\ sPc = "idle"
    /\ \E body \in Bodies : sInput' = body /\ sRest' = body
    /\ sBuffer' = <<>>
    /\ sFrames' = <<>>
    /\ sPc' = "relay"
    /\ UNCHANGED notStream

\* one read returns the next n characters of the body
StreamChunk ==
    /\ sPc = "relay"
    /\ \E n \in 1..Len(sRest) :
         LET lines == Split(sBuffer \o SubSeq(sRest, 1, n))
         IN  /\ sRest' = SubSeq(sRest, n + 1, Len(sRest))
             /\ sBuffer' = KeepLast(lines)
             /\ sFrames' = RelayLines(sFrames, SubSeq(lines, 1, Len(lines) - 1))
    /\ UNCHANGED <<sInput, sPc, notStream>>

\* the read after the last character returns done: flush, then onEnd
StreamEof ==
    /\ sPc = "relay"
    /\ sRest = <<>>
    /\ sFrames' = Append(FlushBuffer(sFrames, sBuffer), DoneFrame)
    /\ sPc' = "done"
    /\ UNCHANGED <<sInput, sRest, sBuffer, notStream>>

StreamNext == StreamOpen \/ StreamChunk \/ StreamEof

(***************************************************************************)
(* The credential array of KeyStore (src/src/core/keyStore.js) and its     *)
(* round robin, from any persisted array and cursor.                       *)
(***************************************************************************)
StoreIds == {"k1", "k2", "k3"}

\* a credential as parseKeyString makes it
NewCredential(id) ==
    [id |-> id, enabled |-> TRUE, healthy |-> TRUE,
     totalRequests |-> 0, failedRequests |-> 0, lastError |-> FALSE]

\* the arrays of credentials with distinct ids a key file can hold; counts
\* are the pairs <<totalRequests, failedRequests>> found in it
RECURSIVE CredentialArrays(_, _)
CredentialArrays(ids, counts) ==
    {<<>>} \cup
    UNION {{<<[NewCredential(id) EXCEPT !.enabled = e, !.healthy = h,
                                        !.totalRequests = c[1],
                                        !.failedRequests = c[2]]>> \o rest :
                e \in BOOLEAN, h \in BOOLEAN, c \in counts,
                rest \in CredentialArrays(ids \ {id}, counts)} :
           id \in ids}

\* the ids of an array of credentials, in order
IdsOf(creds) == [i \in 1..Len(creds) |-> creds[i].id]

\* getNextKey lines 353-357: the pool, ids in array order
StorePool(creds) ==
    LET enabledHealthy == SelectSeq(creds, LAMBDA k : k.enabled /\ k.healthy)
    IN  IF Len(enabledHealthy) > 0 THEN IdsOf(enabledHealthy)
        ELSE IdsOf(SelectSeq(creds, LAMBDA k : k.enabled))

\* mutant of AdvanceIndex: the cursor is not moved on
AdvanceIndexStuck(idx, n) == idx % n

\* mutant of AdvanceIndex: the cursor does not wrap around
AdvanceIndexUnwrapped(idx, n) == idx + 1

\* getNextKey line 368
AdvanceIndex(idx, n) == (idx + 1) % n

\* getNextKey over a pool: the id returned (None for null) and the cursor
PickNext(pool, idx) ==
    IF Len(pool) = 0 THEN [key |-> None, index |-> idx]
    ELSE [key |-> pool[ClampIndex(idx, pool) + 1],
          index |-> AdvanceIndex(ClampIndex(idx, pool), Len(pool))]

\* getNextKey of part_007, lines 218-236: the cursor is taken modulo the pool
PickNextMod(pool, idx) ==
    IF Len(pool) = 0 THEN [key |-> None, index |-> idx]
    ELSE [key |-> pool[(idx % Len(pool)) + 1],
          index |-> ((idx % Len(pool)) + 1) % Len(pool)]

\* the latest returns, at most one per credential id
Remember(served, key) ==
    LET all == Append(served, key)
    IN  IF Len(all) > Cardinality(StoreIds) THEN Tail(all) ELSE all

\* constructor / _load: keys and currentIndex come from the key file
RRLoad ==
    /\ rrPc = "boot"
    /\ rrKeys' \in CredentialArrays(StoreIds, {<<0, 0>>})
    /\ \E idx \in 0..MaxCursor : rrIndex' = idx /\ rrIndexMod' = idx
    /\ rrServed' = <<>>
    /\ rrServedMod' = <<>>
    /\ rrPc' = "run"
    /\ UNCHANGED notRR

\* one getNextKey call on each store
RRGetNextKey ==
    /\ rrPc = "run"
    /\ LET got == PickNext(StorePool(rrKeys), rrIndex)
           gotMod == PickNextMod(StorePool(rrKeys), rrIndexMod)
       IN  /\ rrIndex' = got.index
           /\ rrIndexMod' = gotMod.index
           /\ rrServed' = Remember(rrServed, got.key)
           /\ rrServedMod' = Remember(rrServedMod, gotMod.key)
    /\ UNCHANGED <<rrKeys, rrPc, notRR>>

RRNext == RRLoad \/ RRGetNextKey

(***************************************************************************)
(* KeyStore under every operation of the admin routes and of the proxy.    *)
(***************************************************************************)
AdminIds == {"k1", "k2"}

\* <<totalRequests, failedRequests>> of the credentials of the key file
LoadedCounts == {<<0, 0>>, <<5, 5>>, <<9, 7>>}

\* _poolCache = null
NoCache == [set |-> FALSE, ids |-> <<>>]

\* storeRet before any getNextKey call and after any other operation
NoReturn == "no return"

\* mutant of InvalidateCache: the memoised pool is kept
InvalidateCacheKept(cache) == cache

\* _invalidateCache, called first by _save and _saveSync
InvalidateCache(cache) == NoCache

\* getNextKey: the id returned (None for null), the cursor and the cache
GetNextKeyCached(creds, idx, cache) ==
    IF Len(creds) = 0 THEN [key |-> None, index |-> idx, cache |-> cache]
    ELSE LET filled == IF cache.set THEN cache
                       ELSE [set |-> TRUE, ids |-> StorePool(creds)]
             got == PickNext(filled.ids, idx)
         IN  IF Len(filled.ids) = 0
             THEN [key |-> None, index |-> idx, cache |-> filled]
             ELSE [key |-> got.key, index |-> got.index,
                   cache |-> InvalidateCache(filled)]

\* the ids of the credentials of the store
Present(creds) == {creds[i].id : i \in 1..Len(creds)}

\* the credential of the store with this id
CredOf(creds, id) == creds[CHOOSE i \in 1..Len(creds) : creds[i].id = id]

\* the store with Op applied to the credential with this id
UpdateCred(creds, id, Op(_)) ==
    [i \in 1..Len(creds) |-> IF creds[i].id = id THEN Op(creds[i]) ELSE creds[i]]

\* mutant of Degraded: a failure rate of exactly 80% already degrades
DegradedAtFourFifths(failed, total) == failed > 5 /\ 5 * failed >= 4 * total

\* recordFailure line 417: more than 5 failures and more than 80% failed
Degraded(failed, total) == failed > 5 /\ 5 * failed > 4 * total

CredRecordSuccess(c) ==
    [c EXCEPT !.totalRequests = @ + 1, !.healthy = TRUE, !.lastError = FALSE]

CredRecordFailure(c) ==
    [c EXCEPT !.totalRequests = @ + 1, !.failedRequests = @ + 1,
              !.lastError = TRUE,
              !.healthy = IF Degraded(c.failedRequests + 1, c.totalRequests + 1)
                          THEN FALSE ELSE @]

\* checkKeyHealth after its fetch settled
CredHealthChecked(c, ok) ==
    IF ok THEN [c EXCEPT !.healthy = TRUE, !.lastError = FALSE]
    ELSE [c EXCEPT !.healthy = FALSE, !.lastError = TRUE]

\* mutant of CredResetHealth: the counters start again as well
CredResetHealthAndCounters(c) ==
    [c EXCEPT !.healthy = TRUE, !.lastError = FALSE, !.totalRequests = 0,
              !.failedRequests = 0]

CredResetHealth(c) == [c EXCEPT !.healthy = TRUE, !.lastError = FALSE]

\* mutant of CredToggle: toggling a credential also marks it healthy
CredToggleMarksHealthy(c) == [c EXCEPT !.enabled = ~@, !.healthy = TRUE]

\* toggleKey line 338
CredToggle(c) == [c EXCEPT !.enabled = ~@]

\* constructor / _load
StoreLoad ==
    /\ storePc = "boot"
    /\ storeKeys' \in CredentialArrays(AdminIds, LoadedCounts)
    /\ storeIndex' \in 0..MaxCursor
    /\ storeCache' = NoCache
    /\ storePc' = "run"
    /\ UNCHANGED <<storeRet, storeRecords, notStore>>

StoreGetNextKey ==
    /\ storePc = "run"
    /\ LET got == GetNextKeyCached(storeKeys, storeIndex, storeCache)
       IN  /\ storeRet' = got.key
           /\ storeIndex' = got.index
           /\ storeCache' = got.cache
    /\ UNCHANGED <<storeKeys, storeRecords, storePc, notStore>>

\* a mutation of the array and the cursor, then _saveSync or _save
Mutate(creds, idx) ==
    /\ storePc = "run"
    /\ storeKeys' = creds
    /\ storeIndex' = idx
    /\ storeCache' = InvalidateCache(storeCache)
    /\ storeRet' = NoReturn
    /\ UNCHANGED <<storePc, notStore>>

StoreAddKey(id) ==
    /\ id \notin Present(storeKeys)
    /\ Mutate(Append(storeKeys, NewCredential(id)), storeIndex)
    /\ UNCHANGED storeRecords

\* batchImport of a text with two new keys
StoreBatchImport(id1, id2) ==
    /\ id1 # id2
    /\ {id1, id2} \cap Present(storeKeys) = {}
    /\ Mutate(storeKeys \o <<NewCredential(id1), NewCredential(id2)>>, storeIndex)
    /\ UNCHANGED storeRecords

StoreRemoveKey(id) ==
    /\ id \in Present(storeKeys)
    /\ LET rest == SelectSeq(storeKeys, LAMBDA k : k.id # id)
       IN  Mutate(rest, IF storeIndex >= Len(rest) THEN 0 ELSE storeIndex)
    /\ UNCHANGED storeRecords

StoreToggleKey(id) ==
    /\ id \in Present(storeKeys)
    /\ Mutate(UpdateCred(storeKeys, id, CredToggle), storeIndex)
    /\ UNCHANGED storeRecords

StoreRecordSuccess(id) ==
    /\ id \in Present(storeKeys)
    /\ storeRecords < MaxRecords
    /\ storeRecords' = storeRecords + 1
    /\ Mutate(UpdateCred(storeKeys, id, CredRecordSuccess), storeIndex)

StoreRecordFailure(id) ==
    /\ id \in Present(storeKeys)
    /\ storeRecords < MaxRecords
    /\ storeRecords' = storeRecords + 1
    /\ Mutate(UpdateCred(storeKeys, id, CredRecordFailure), storeIndex)

\* checkKeyHealth resumes after its fetch: ok is res.ok, FALSE also stands
\* for a fetch that threw
StoreHealthChecked(id, ok) ==
    /\ id \in Present(storeKeys)
    /\ Mutate(UpdateCred(storeKeys, id, LAMBDA c : CredHealthChecked(c, ok)),
              storeIndex)
    /\ UNCHANGED storeRecords

StoreClearAll ==
    /\ Mutate(<<>>, 0)
    /\ UNCHANGED storeRecords

StoreResetHealth ==
    /\ Mutate([i \in 1..Len(storeKeys) |-> CredResetHealth(storeKeys[i])],
              storeIndex)
    /\ UNCHANGED storeRecords

StoreNext ==
    \/ StoreLoad
    \/ StoreGetNextKey
    \/ \E id \in AdminIds : StoreAddKey(id)
    \/ \E id1 \in AdminIds, id2 \in AdminIds : StoreBatchImport(id1, id2)
    \/ \E id \in AdminIds : StoreRemoveKey(id)
    \/ \E id \in AdminIds : StoreToggleKey(id)
    \/ \E id \in AdminIds : StoreRecordSuccess(id)
    \/ \E id \in AdminIds : StoreRecordFailure(id)
    \/ \E id \in AdminIds, ok \in BOOLEAN : StoreHealthChecked(id, ok)
    \/ StoreClearAll
    \/ StoreResetHealth

(***************************************************************************)
(* Channel health: the counters and the healthy flag of ChannelManager     *)
(* under recordSuccess, recordFailure, health checks and resetHealth.      *)
(***************************************************************************)
QRecordSuccess(c) ==
    /\ qRecords < MaxChannelRecords
    /\ qRecords' = qRecords + 1
    /\ qChannels' = ChannelRecordSuccess(qChannels, c)
    /\ UNCHANGED notQ

QRecordFailure(c) ==
    /\ qRecords < MaxChannelRecords
    /\ qRecords' = qRecords + 1
    /\ qChannels' = ChannelRecordFailure(qChannels, c)
    /\ UNCHANGED notQ

\* checkAllHealth, one channel's probe settled: healthy = res.ok, and false
\* when the fetch threw
QHealthProbe(c, ok) ==
    /\ qChannels[c].enabled
    /\ qChannels' = [qChannels EXCEPT ![c].healthy = ok]
    /\ UNCHANGED <<qRecords, notQ>>

QResetHealth ==
    /\ qChannels' = [c \in Channels |->
                       [qChannels[c] EXCEPT !.healthy = TRUE, !.currentConcurrent = 0]]
    /\ UNCHANGED <<qRecords, notQ>>

\* updateChannel(c, {enabled}): the counters are no field it may write
QUpdateEnabled(c, enabled) ==
    /\ qChannels[c].enabled # enabled
    /\ qChannels' = [qChannels EXCEPT ![c].enabled = enabled]
    /\ UNCHANGED <<qRecords, notQ>>

QNext ==
    \/ \E c \in Channels : QRecordSuccess(c)
    \/ \E c \in Channels : QRecordFailure(c)
    \/ \E c \in Channels, ok \in BOOLEAN : QHealthProbe(c, ok)
    \/ QResetHealth
    \/ \E c \in Channels, enabled \in BOOLEAN : QUpdateEnabled(c, enabled)

\* The key store and the channel manager share no state, so a step of one
\* commutes with a step of the other: a behaviour here is one of the key
\* store with the channels at rest, or one of the channels with the key store
\* not yet loaded.
CountersNext ==
    \/ StoreNext /\ qChannels = InitChannels /\ qRecords = 0
    \/ QNext /\ storePc = "boot"

(***************************************************************************)
(* Token registry: src/unnamed/part_005 (core/tokenManager.js).            *)
(* Instants are integers; 0 stands for null in expiresAt and quotaLimit.   *)
(***************************************************************************)
TokenIds == {"t1", "t2"}

\* the plain token string of each token id
PlainOf == [id \in TokenIds |-> IF id = "t1" THEN "sk-t1" ELSE "sk-t2"]

\* what a client may send: nothing, a registered string, an unknown one
Plains == {"", "sk-t1", "sk-t2", "sk-unknown"}

\* instants in one month
MonthLen == 3

\* new Date(now.getFullYear(), now.getMonth() + 1, 1): the first instant of
\* the month after that instant
NextMonthStart(at) == ((at \div MonthLen) + 1) * MonthLen

\* no token with this id
NoToken == [present |-> FALSE]

\* the token objects a tokens file can hold
TokenObjects(ipLists) ==
    [present : {TRUE}, enabled : BOOLEAN, expiresAt : {0, 2},
     quotaLimit : {0, 2}, quotaUsed : {0, 2}, quotaResetAt : {1, MonthLen},
     allowedIPs : ipLists]

\* this._tokenLookup.get(plain): the id of the token, None when there is none
Lookup(tokens, plain) ==
    IF \E id \in TokenIds : tokens[id].present /\ PlainOf[id] = plain
    THEN CHOOSE id \in TokenIds : tokens[id].present /\ PlainOf[id] = plain
    ELSE None

Invalid(error) == [valid |-> FALSE, error |-> error, token |-> None]

\* mutant of ValidateToken: the quota is checked before the expiry
ValidateTokenQuotaFirst(tokens, plain, at) ==
    LET id == Lookup(tokens, plain)
    IN  IF plain = "" THEN Invalid("Missing token")
        ELSE IF id = None THEN Invalid("Invalid token")
        ELSE IF ~tokens[id].enabled THEN Invalid("Token disabled")
        ELSE IF tokens[id].quotaLimit # 0 /\ tokens[id].quotaUsed >= tokens[id].quotaLimit
             THEN Invalid("Token quota exceeded")
        ELSE IF tokens[id].expiresAt # 0 /\ tokens[id].expiresAt < at
             THEN Invalid("Token expired")
        ELSE [valid |-> TRUE, error |-> "", token |-> id]

\* validateToken(plainToken) at that instant
ValidateToken(tokens, plain, at) ==
    LET id == Lookup(tokens, plain)
    IN  IF plain = "" THEN Invalid("Missing token")
        ELSE IF id = None THEN Invalid("Invalid token")
        ELSE IF ~tokens[id].enabled THEN Invalid("Token disabled")
        ELSE IF tokens[id].expiresAt # 0 /\ tokens[id].expiresAt < at
             THEN Invalid("Token expired")
        ELSE IF tokens[id].quotaLimit # 0 /\ tokens[id].quotaUsed >= tokens[id].quotaLimit
             THEN Invalid("Token quota exceeded")
        ELSE [valid |-> TRUE, error |-> "", token |-> id]

\* _checkQuotaReset at that instant
CheckQuotaReset(tokens, at) ==
    [id \in TokenIds |->
        IF tokens[id].present /\ tokens[id].quotaResetAt <= at
        THEN [tokens[id] EXCEPT !.quotaUsed = 0, !.quotaResetAt = NextMonthStart(at)]
        ELSE tokens[id]]

\* tResult when no validateToken call was made at this instant
NoValidation == [plain |-> "none", at |-> 0, valid |-> FALSE, error |-> "", token |-> None]

\* constructor: _load, _rebuildIndex, _checkQuotaReset
TokenLoad(registries) ==
    /\ tPc = "boot"
    /\ \E loaded \in registries : tTokens' = CheckQuotaReset(loaded, tNow)
    /\ tPc' = "run"
    /\ UNCHANGED <<tNow, tResult, notT>>

TLoad == TokenLoad([TokenIds -> TokenObjects({{}}) \cup {NoToken}])

\* time passes
TTick ==
    /\ tPc = "run"
    /\ tNow < MaxTokenTime
    /\ tNow' = tNow + 1
    /\ tResult' = NoValidation
    /\ UNCHANGED <<tTokens, tPc, notT>>

TValidateToken(plain) ==
    /\ tPc = "run"
    /\ LET r == ValidateToken(tTokens, plain, tNow)
       IN  tResult' = [plain |-> plain, at |-> tNow, valid |-> r.valid,
                       error |-> r.error, token |-> r.token]
    /\ UNCHANGED <<tTokens, tNow, tPc, notT>>

\* recordUsage(id, promptTokens, completionTokens) with n tokens in all
TRecordUsage(id, n) ==
    /\ tPc = "run"
    /\ tTokens[id].present
    /\ tTokens[id].quotaUsed + n <= MaxQuotaUsed
    /\ tTokens' = [tTokens EXCEPT ![id].quotaUsed = @ + n]
    /\ tResult' = NoValidation
    /\ UNCHANGED <<tNow, tPc, notT>>

TDeleteToken(id) ==
    /\ tPc = "run"
    /\ tTokens[id].present
    /\ tTokens' = [tTokens EXCEPT ![id] = NoToken]
    /\ tResult' = NoValidation
    /\ UNCHANGED <<tNow, tPc, notT>>

TNext ==
    \/ TLoad
    \/ TTick
    \/ \E plain \in Plains : TValidateToken(plain)
    \/ \E id \in TokenIds, n \in 1..2 : TRecordUsage(id, n)
    \/ \E id \in TokenIds : TDeleteToken(id)

(***************************************************************************)
(* The gates of /v1: src/src/app.js lines 61-148. Express runs the three   *)
(* middlewares and the call of the route handler in one synchronous        *)
(* stretch, so one request is one step.                                    *)
(***************************************************************************)
IPs == {"10.0.0.1", "10.0.0.2"}

\* req.headers['authorization'] is undefined
NoHeader == "no header"

\* the value of API_TOKEN when it is set
LegacySecret == "legacy-secret"

Headers == {NoHeader, "sk-t1", "sk-unknown", LegacySecret}

\* accessControl.isAllowed(ip) with literal entries
IsAllowed(policy, ip) ==
    CASE policy.mode = "disabled" -> TRUE
      [] policy.mode = "whitelist" -> policy.whitelist = {} \/ ip \in policy.whitelist
      [] policy.mode = "blacklist" -> ip \notin policy.blacklist

Policies ==
    {[mode |-> "disabled", whitelist |-> {}, blacklist |-> {}],
     [mode |-> "whitelist", whitelist |-> {"10.0.0.1"}, blacklist |-> {}],
     [mode |-> "blacklist", whitelist |-> {}, blacklist |-> {"10.0.0.2"}]}

\* the registries the gates run over: t1 in any state, no t2
GateRegistries ==
    {reg \in [TokenIds -> TokenObjects({{}, {"10.0.0.1"}}) \cup {NoToken}] :
        /\ reg["t2"] = NoToken
        /\ reg["t1"].present =>
              /\ reg["t1"].expiresAt = 0
              /\ reg["t1"].quotaLimit = 0 /\ reg["t1"].quotaUsed = 0
              /\ reg["t1"].quotaResetAt = MonthLen
              /\ ~reg["t1"].enabled => reg["t1"].allowedIPs = {}}

\* checkIPAccess(tokenObj, ip)
CheckIPAccess(tok, ip) == tok.allowedIPs = {} \/ ip \in tok.allowedIPs

\* isMultiTokenMode()
IsMultiTokenMode(tokens) == \E id \in TokenIds : tokens[id].present

\* the windows of a new RateLimiter
NoWindows ==
    [global |-> NoEntry, ip |-> [i \in IPs |-> NoEntry],
     token |-> [id \in TokenIds |-> NoEntry]]

\* check with every enabled window consumed, whatever the earlier ones said
CheckEveryWindow(wins, ip, tokenId, cfg, at) ==
    LET g == ConsumeAt(wins.global, at)
        w1 == IF cfg.globalEnabled THEN [wins EXCEPT !.global = g.entry] ELSE wins
        i == ConsumeAt(w1.ip[ip], at)
        w2 == IF cfg.ipEnabled THEN [w1 EXCEPT !.ip[ip] = i.entry] ELSE w1
        k == ConsumeAt(w2.token[tokenId], at)
        w3 == IF cfg.tokenEnabled /\ tokenId # None
              THEN [w2 EXCEPT !.token[tokenId] = k.entry] ELSE w2
    IN  IF cfg.globalEnabled /\ ~g.allowed
        THEN [windows |-> w3, allowed |-> FALSE, limitType |-> "global",
              retryAfter |-> g.retryAfter]
        ELSE IF cfg.ipEnabled /\ ~i.allowed
        THEN [windows |-> w3, allowed |-> FALSE, limitType |-> "ip",
              retryAfter |-> i.retryAfter]
        ELSE IF cfg.tokenEnabled /\ tokenId # None /\ ~k.allowed
        THEN [windows |-> w3, allowed |-> FALSE, limitType |-> "token",
              retryAfter |-> k.retryAfter]
        ELSE [windows |-> w3, allowed |-> TRUE, limitType |-> "none",
              retryAfter |-> 0]

\* RateLimiter.check(ip, tokenId): global, then ip, then token; tokenId is
\* None for the empty string
Check(wins, ip, tokenId, cfg, at) ==
    LET g == ConsumeAt(wins.global, at)
        w1 == IF cfg.globalEnabled THEN [wins EXCEPT !.global = g.entry] ELSE wins
        i == ConsumeAt(w1.ip[ip], at)
        w2 == IF cfg.ipEnabled THEN [w1 EXCEPT !.ip[ip] = i.entry] ELSE w1
        k == ConsumeAt(w2.token[tokenId], at)
    IN  IF cfg.globalEnabled /\ ~g.allowed
        THEN [windows |-> w1, allowed |-> FALSE, limitType |-> "global",
              retryAfter |-> g.retryAfter]
        ELSE IF cfg.ipEnabled /\ ~i.allowed
        THEN [windows |-> w2, allowed |-> FALSE, limitType |-> "ip",
              retryAfter |-> i.retryAfter]
        ELSE IF cfg.tokenEnabled /\ tokenId # None /\ ~k.allowed
        THEN [windows |-> [w2 EXCEPT !.token[tokenId] = k.entry], allowed |-> FALSE,
              limitType |-> "token", retryAfter |-> k.retryAfter]
        ELSE [windows |-> IF cfg.tokenEnabled /\ tokenId # None
                          THEN [w2 EXCEPT !.token[tokenId] = k.entry] ELSE w2,
              allowed |-> TRUE, limitType |-> "none", retryAfter |-> 0]

\* a request entering the chain
NewGateReq(ip, header) ==
    [ip |-> ip, header |-> header, ran |-> <<>>, status |-> 0, type |-> "none",
     limitType |-> "none", retryAfter |-> 0, tokenObj |-> None, handled |-> FALSE]

Reject(rq, status, type) == [rq EXCEPT !.status = status, !.type = type]

\* lines 61-71
AccessGate(wins, rq) ==
    [windows |-> wins,
     req |-> IF ~IsAllowed(gPolicy, rq.ip) THEN Reject(rq, 403, "access_denied") ELSE rq]

\* lines 76-97
RateGate(wins, rq) ==
    LET result == Check(wins, rq.ip, rq.tokenObj, gConfig, tNow)
    IN  [windows |-> result.windows,
         req |-> IF ~result.allowed
                 THEN [Reject(rq, 429, "rate_limit_error") EXCEPT
                          !.limitType = result.limitType,
                          !.retryAfter = IF result.retryAfter # 0
                                         THEN result.retryAfter ELSE 60]
                 ELSE rq]

\* lines 104-148
AuthGate(wins, rq) ==
    LET multi == IsMultiTokenMode(tTokens)
        result == ValidateToken(tTokens, rq.header, tNow)
    IN  [windows |-> wins,
         req |->
            IF gConfig.apiToken = "" /\ ~multi THEN rq
            ELSE IF rq.header = NoHeader THEN Reject(rq, 401, "auth_error")
            ELSE IF multi
                 THEN IF ~result.valid
                      THEN IF gConfig.apiToken # "" /\ rq.header = gConfig.apiToken
                           THEN rq
                           ELSE Reject(rq, 401, "auth_error")
                      ELSE IF ~CheckIPAccess(tTokens[result.token], rq.ip)
                           THEN Reject(rq, 403, "access_denied")
                           ELSE [rq EXCEPT !.tokenObj = result.token]
            ELSE IF rq.header # gConfig.apiToken THEN Reject(rq, 401, "auth_error")
            ELSE rq]

RunGate(gate, wins, rq) ==
    CASE gate = "access" -> AccessGate(wins, rq)
      [] gate = "rate" -> RateGate(wins, rq)
      [] gate = "auth" -> AuthGate(wins, rq)

\* mutant of GateOrder: the rate limit is registered before access control
GateOrderRateFirst == <<"rate", "access", "auth">>

\* the order of the app.use('/v1', ...) calls
GateOrder == <<"access", "rate", "auth">>

\* each gate either answers or calls next(); after the last one the route
\* handler is called
RECURSIVE RunChain(_, _, _)
RunChain(gates, wins, rq) ==
    IF gates = <<>> THEN [windows |-> wins, req |-> [rq EXCEPT !.handled = TRUE]]
    ELSE LET out == RunGate(Head(gates), wins, [rq EXCEPT !.ran = Append(@, Head(gates))])
         IN  IF out.req.status # 0 THEN out
             ELSE RunChain(Tail(gates), out.windows, out.req)

\* the token registry is constructed when the module is imported
GateLoadTokens == TokenLoad(GateRegistries)

\* the process starts with the environment and access.json it finds
GateBoot ==
    /\ gPc = "boot"
    /\ tPc = "run"
    /\ gPolicy' \in Policies
    /\ gConfig' \in [apiToken : {"", LegacySecret}, globalEnabled : BOOLEAN,
                      ipEnabled : BOOLEAN, tokenEnabled : {TRUE}]
    /\ gConfig'.globalEnabled = gConfig'.ipEnabled
    /\ gWindows' = NoWindows
    /\ gPc' = "run"
    /\ UNCHANGED <<gLog, notG, tVars>>

\* one request to /v1
GateRequest(ip, header) ==
    /\ gPc = "run"
    /\ Len(gLog) <= MaxRequests
    /\ LET out == RunChain(GateOrder, gWindows, NewGateReq(ip, header))
       IN  /\ gWindows' = out.windows
           /\ gLog' = Append(gLog, out.req)
    /\ UNCHANGED <<gPolicy, gConfig, gPc, notG, tVars>>

GateNext ==
    \/ GateLoadTokens
    \/ GateBoot
    \/ \E ip \in IPs, header \in Headers : GateRequest(ip, header)

(***************************************************************************)
(* Model scoping on the endpoints that take a model: src/unnamed/part_002  *)
(* and checkModelAccess of src/unnamed/part_005. Names are sequences of    *)
(* characters.                                                             *)
(***************************************************************************)
Endpoints == {"/v1/chat/completions", "/v1/completions", "/v1/embeddings"}

\* the sequences of 1..n elements of chars
NamesOver(chars, n) == UNION {[1..k -> chars] : k \in 1..n}

ModelNames == NamesOver({"a", "b", "."}, MaxName)

\* the allowedModels lists: empty, or one entry
AllowedLists == {{}} \cup {{m} : m \in NamesOver({"a", ".", "*"}, MaxName)}

\* new RegExp('^' + m.replace(/\*/g, '.*') + '$').test(model): a star stands
\* for any run of characters and, the entry not being escaped, a dot for any
\* one character
RECURSIVE RegexTest(_, _)
RegexTest(m, model) ==
    IF m = <<>> THEN model = <<>>
    ELSE IF Head(m) = "*"
         THEN RegexTest(Tail(m), model)
                \/ (model # <<>> /\ RegexTest(m, Tail(model)))
         ELSE /\ model # <<>>
              /\ Head(m) = "." \/ Head(m) = Head(model)
              /\ RegexTest(Tail(m), Tail(model))

\* checkModelAccess(tokenObj, model)
CheckModelAccess(allowedModels, model) ==
    \/ allowedModels = {}
    \/ \E m \in allowedModels :
          IF \E i \in 1..Len(m) : m[i] = "*" THEN RegexTest(m, model) ELSE m = model

NoScopeReq ==
    [endpoint |-> "none", hasToken |-> FALSE, allowedModels |-> {}, model |-> <<>>,
     status |-> 0, type |-> "none", proxied |-> FALSE]

\* the handlers that call checkModelAccess: chat completions (lines 237-241)
\* does; completions (378-389) and embeddings (470-492) do not
ChecksModelAccess(endpoint) == endpoint = "/v1/chat/completions"

\* a handler from its start to the cache lookup and the call of proxyWithRetry
ScopeRequest(endpoint, hasToken, allowedModels, model) ==
    /\ ~hasToken => allowedModels = {}
    /\ scopeReq' =
          LET rq == [NoScopeReq EXCEPT !.endpoint = endpoint, !.hasToken = hasToken,
                                       !.allowedModels = allowedModels, !.model = model]
          IN  IF model = <<>>
              THEN [rq EXCEPT !.status = 400, !.type = "invalid_request_error"]
              ELSE IF /\ ChecksModelAccess(endpoint)
                      /\ hasToken
                      /\ ~CheckModelAccess(allowedModels, model)
              THEN [rq EXCEPT !.status = 403, !.type = "permission_error"]
              ELSE [rq EXCEPT !.proxied = TRUE]
    /\ UNCHANGED notScope

ScopeNext ==
    \E endpoint \in Endpoints, hasToken \in BOOLEAN, allowedModels \in AllowedLists,
       model \in ModelNames \cup {<<>>} :
        ScopeRequest(endpoint, hasToken, allowedModels, model)

(***************************************************************************)
(* AccessControl: src/src/core/metrics.js lines 285-414. An address string *)
(* is a record: a dotted quad (v4), "::ffff:" before a dotted quad         *)
(* (mapped), "::1" (loopback6) or the empty string (empty). A 32-bit value *)
(* is its four bytes, the first the highest.                               *)
(***************************************************************************)
V4(octets) == [form |-> "v4", octets |-> octets]

Mapped(octets) == [form |-> "mapped", octets |-> octets]

Loopback6 == [form |-> "loopback6", octets |-> <<>>]

EmptyAddr == [form |-> "empty", octets |-> <<>>]

\* no call of isAllowed is being answered
NoAddr == [form |-> "none", octets |-> <<>>]

Literal(addr) == [kind |-> "literal", addr |-> addr, bits |-> 0]

Cidr(range, bits) == [kind |-> "cidr", addr |-> range, bits |-> bits]

\* mutant of NormalizeIP: the address is taken as it is
NormalizeIPAsIs(ip) == ip

\* _normalizeIP(ip)
NormalizeIP(ip) ==
    CASE ip.form = "empty" -> EmptyAddr
      [] ip.form = "mapped" -> V4(ip.octets)
      [] ip.form = "loopback6" -> V4(<<127, 0, 0, 1>>)
      [] OTHER -> ip

\* the result null of _ipToNum
NullNum == <<>>

\* _ipToNum(ip): split('.') gives four numbers 0..255 only for a dotted quad;
\* the shifts and ors put them in the four bytes of a 32-bit value
IpToNum(ip) == IF ip.form = "v4" THEN ip.octets ELSE NullNum

\* mutant of MaskByte: the mask of /32 whatever the prefix length
MaskByteOfHost(j, bits) == 255

\* byte j of ~(2 ** (32 - bits) - 1): 2 ** k - 1 has its k lowest bits set,
\* ~ keeps the low 32 bits and flips them
MaskByte(j, bits) ==
    LET k == 32 - bits
        below == 8 * (4 - j)
        ones == IF k - below > 8 THEN 8 ELSE IF k - below < 0 THEN 0 ELSE k - below
    IN  255 - (2 ^ ones - 1)

\* a & b on one byte
RECURSIVE AndBits(_, _, _)
AndBits(a, b, width) ==
    IF width = 0 THEN 0
    ELSE 2 * AndBits(a \div 2, b \div 2, width - 1) + (a % 2) * (b % 2)

\* _matchesCIDR(ip, cidr)
MatchesCIDR(ip, entry) ==
    LET ipNum == IpToNum(ip)
        rangeNum == IpToNum(entry.addr)
    IN  /\ ipNum # NullNum
        /\ rangeNum # NullNum
        /\ \A j \in 1..4 :
              AndBits(ipNum[j], MaskByte(j, entry.bits), 8)
                = AndBits(rangeNum[j], MaskByte(j, entry.bits), 8)

\* _matchesSet(ip, set)
MatchesSet(ip, set) ==
    \E entry \in set :
        IF entry.kind = "cidr" THEN MatchesCIDR(ip, entry)
        ELSE ip = entry.addr \/ ip = NormalizeIP(entry.addr)

\* isAllowed(ip)
AccessAllowed(policy, ip) ==
    IF policy.mode = "disabled" THEN TRUE
    ELSE LET normalizedIP == NormalizeIP(ip)
         IN  IF policy.mode = "whitelist"
             THEN policy.whitelist = {} \/ MatchesSet(normalizedIP, policy.whitelist)
             ELSE IF policy.mode = "blacklist"
             THEN ~MatchesSet(normalizedIP, policy.blacklist)
             ELSE TRUE

\* the entries and the addresses of the mode checks
ModeEntries ==
    {Literal(V4(<<10, 0, 0, 1>>)), Literal(Mapped(<<10, 0, 0, 2>>)), Literal(Loopback6),
     Cidr(V4(<<10, 0, 0, 0>>), 31), Cidr(V4(<<127, 0, 0, 0>>), 8)}

ModeLists == {list \in SUBSET ModeEntries : Cardinality(list) <= 2}

ModeAddrs ==
    {V4(<<10, 0, 0, 1>>), V4(<<10, 0, 0, 2>>), Mapped(<<10, 0, 0, 1>>),
     Mapped(<<192, 168, 0, 1>>), Loopback6, V4(<<127, 0, 0, 1>>), EmptyAddr}

\* the octets of the CIDR checks: every bit of a byte is set in one and
\* clear in another
CidrOctets == {0, 85, 255}

RangeOctets == {0, 170, 255}

\* isAllowed(ip) under some policy
AccessCheck ==
    /\ acIp = NoAddr
    /\ \E mode \in {"disabled", "whitelist", "blacklist"}, wl \in ModeLists,
          bl \in ModeLists, ip \in ModeAddrs :
            /\ acPolicy' = [mode |-> mode, whitelist |-> wl, blacklist |-> bl]
            /\ acIp' = ip
    /\ acResult' = AccessAllowed(acPolicy', acIp')
    /\ UNCHANGED notAc

\* isAllowed(ip) in whitelist mode with one CIDR entry
AccessCheckCidr ==
    /\ acIp = NoAddr
    /\ \E range \in [1..4 -> RangeOctets], bits \in 0..32, x \in [1..4 -> CidrOctets],
          mapped \in BOOLEAN :
            /\ mapped => x[4] = 255
            /\ acPolicy' = [mode |-> "whitelist", whitelist |-> {Cidr(V4(range), bits)},
                            blacklist |-> {}]
            /\ acIp' = IF mapped THEN Mapped(x) ELSE V4(x)
    /\ acResult' = AccessAllowed(acPolicy', acIp')
    /\ UNCHANGED notAc

\* the caller has the answer
AccessReturn ==
    /\ acIp # NoAddr
    /\ acPolicy' = [mode |-> "disabled", whitelist |-> {}, blacklist |-> {}]
    /\ acIp' = NoAddr
    /\ acResult' = TRUE
    /\ UNCHANGED notAc

AccessNext == AccessCheck \/ AccessCheckCidr \/ AccessReturn

(***************************************************************************)
(* The translator: src/src/core/transformer.js, and the later copy of the  *)
(* same functions in src/src/core/metrics.js lines 689-1102. A JSON object *)
(* is a function from its field names; a field it lacks is undefined.      *)
(***************************************************************************)
\* the two copies of the translator functions
Copies == {"transformer.js", "metrics.js"}

\* the object {}
EmptyObject == [f \in {} |-> 0]

Has(object, field) == field \in DOMAIN object

\* the objects with the field absent or holding one of the values
Optional(field, values) == {EmptyObject} \cup {field :> v : v \in values}

\* requests with and without a stream field
OpenAIRequests == {[model |-> "m"] @@ s : s \in Optional("stream", BOOLEAN)}

\* stream: openaiReq.stream !== false
StreamField(openaiReq) == ~(Has(openaiReq, "stream") /\ openaiReq.stream = FALSE)

\* transformChatRequest(openaiReq), the model and the stream field
TransformChatRequest(openaiReq) ==
    [model |-> openaiReq.model, stream |-> StreamField(openaiReq)]

\* transformCompletionsRequest(openaiReq), the model and the stream field
TransformCompletionsRequest(openaiReq) ==
    [model |-> openaiReq.model, stream |-> StreamField(openaiReq)]

\* const isStream = ollamaReq.stream === true
IsStream(ollamaReq) == ollamaReq.stream = TRUE

\* POST /v1/chat/completions and POST /v1/completions up to the choice
\* between the JSON response and the event stream
XRequest ==
    /\ xOp = "none"
    /\ \E copy \in Copies, endpoint \in {"chat", "completions"}, openaiReq \in OpenAIRequests :
         LET ollamaReq == IF endpoint = "chat" THEN TransformChatRequest(openaiReq)
                          ELSE TransformCompletionsRequest(openaiReq)
         IN  /\ xCopy' = copy
             /\ xOp' = endpoint
             /\ xIn' = openaiReq
             /\ xOut' = [ollamaReq |-> ollamaReq, isStream |-> IsStream(ollamaReq)]
    /\ UNCHANGED notX

\* most chunks of one upstream stream, the done chunk included
MaxChunks == 4

\* upstream messages: content and tool_calls may be absent
Messages ==
    {c @@ tc : c \in Optional("content", {"", "x"}),
               tc \in Optional("tool_calls", {<<>>, <<"call">>})}

\* the messages of the chunks before the done chunk
DeltaMessages ==
    {m \in Messages : Has(m, "content") /\ (Has(m, "tool_calls") => m.tool_calls # <<>>)}

DoneReasons == {"stop", "length", "load", "unload", "other"}

\* upstream chunks before the last
DeltaChunks == {[done |-> FALSE] @@ m : m \in Optional("message", DeltaMessages)}

\* upstream chunks and responses with done: true
DoneChunks ==
    {[done |-> TRUE] @@ m @@ r @@ p @@ e :
        m \in Optional("message", Messages), r \in Optional("done_reason", DoneReasons),
        p \in Optional("prompt_eval_count", {0, 2}), e \in Optional("eval_count", {0, 1})}

\* object.field || fallback, the field a number
NumberOr(object, field, fallback) ==
    IF Has(object, field) /\ object[field] # 0 THEN object[field] ELSE fallback

\* object.field || '', the field a string
StringOf(object, field) == IF Has(object, field) THEN object[field] ELSE ""

\* object.field || false
FlagOf(object, field) == Has(object, field) /\ object[field]

\* message.tool_calls || null, null and the empty array not told apart
ToolCallsOf(message) == IF Has(message, "tool_calls") THEN message.tool_calls ELSE <<>>

\* ollamaChunk.message || {}
MessageOf(ollama) == IF Has(ollama, "message") THEN ollama.message ELSE EmptyObject

\* toolCalls && toolCalls.length > 0
AnyToolCall(message) == Has(message, "tool_calls") /\ Len(message.tool_calls) > 0

\* mapFinishReason(doneReason, toolCalls), the message holding toolCalls
MapFinishReason(doneReason, message) ==
    IF AnyToolCall(message) THEN "tool_calls"
    ELSE CASE doneReason = "stop" -> "stop"
           [] doneReason = "length" -> "length"
           [] doneReason = "load" -> "stop"
           [] doneReason = "unload" -> "stop"
           [] OTHER -> "stop"

\* the completion_tokens of the final chunk: eval_count || 0 in
\* transformer.js line 318, eval_count || tokenCount in metrics.js line 337
CompletionTokens(copy, ollamaChunk, tokenCount) ==
    IF copy = "transformer.js" THEN NumberOr(ollamaChunk, "eval_count", 0)
    ELSE NumberOr(ollamaChunk, "eval_count", tokenCount)

\* transformStreamChunk(ollamaChunk, chatId, created, model, isFirstChunk,
\* tokenCount): the delta, the finish reason and the usage
TransformStreamChunk(copy, ollamaChunk, isFirstChunk, tokenCount) ==
    LET message == MessageOf(ollamaChunk)
        promptTokens == NumberOr(ollamaChunk, "prompt_eval_count", 0)
        completionTokens == CompletionTokens(copy, ollamaChunk, tokenCount)
        delta == [role |-> isFirstChunk, content |-> StringOf(message, "content"),
                  tool_calls |-> ToolCallsOf(message)]
    IN  IF FlagOf(ollamaChunk, "done")
        THEN [delta |-> delta,
              finish_reason |-> MapFinishReason(StringOf(ollamaChunk, "done_reason"), message),
              usage |-> [prompt_tokens |-> promptTokens,
                         completion_tokens |-> completionTokens,
                         total_tokens |-> promptTokens + completionTokens]]
        ELSE [delta |-> delta, finish_reason |-> "null"]

\* the streaming response starts: part_002 lines 292-305
XStreamStart ==
    /\ xOp = "none"
    /\ \E copy \in Copies : xCopy' = copy
    /\ xOp' = "stream"
    /\ xIn' = <<>>
    /\ xOut' = [tokenCount |-> 0, isFirstChunk |-> TRUE, chunks |-> <<>>]
    /\ UNCHANGED notX

\* the onLine callback of the relay on one upstream chunk, the client
\* connected: part_002 lines 310-323
XStreamLine ==
    /\ xOp = "stream"
    /\ Len(xIn) < MaxChunks
    /\ IF xIn = <<>> THEN TRUE ELSE ~xIn[Len(xIn)].done
    /\ \E ollamaChunk \in DeltaChunks \cup DoneChunks :
         LET tokenCount == IF StringOf(MessageOf(ollamaChunk), "content") # ""
                           THEN xOut.tokenCount + 1 ELSE xOut.tokenCount
             openaiChunk == TransformStreamChunk(xCopy, ollamaChunk, xOut.isFirstChunk,
                                                 tokenCount)
         IN  /\ xIn' = Append(xIn, ollamaChunk)
             /\ xOut' = [tokenCount |-> tokenCount, isFirstChunk |-> FALSE,
                         chunks |-> Append(xOut.chunks, openaiChunk)]
    /\ UNCHANGED <<xCopy, xOp, notX>>

\* embedding vectors
Vectors == {<<1, 2>>, <<3>>}

\* upstream embed responses: embeddings and embedding may be absent
EmbedResponses ==
    {[model |-> "m"] @@ es @@ e :
        es \in Optional("embeddings", {<<>>} \cup {<<v>> : v \in Vectors}
                                         \cup {<<v, w>> : v \in Vectors, w \in Vectors}),
        e \in Optional("embedding", Vectors)}

\* the array the items are made from. transformer.js line 352:
\* ollamaRes.embeddings || [ollamaRes.embedding] || [], an array being truthy
\* even when empty and an undefined element becoming [] in the item.
\* metrics.js lines 377-385: the embeddings array if not empty, else the
\* embedding alone if there is one, else nothing
EmbeddingsOf(copy, ollamaRes) ==
    IF copy = "transformer.js"
    THEN IF Has(ollamaRes, "embeddings") THEN ollamaRes.embeddings
         ELSE IF Has(ollamaRes, "embedding") THEN <<ollamaRes.embedding>>
         ELSE << <<>> >>
    ELSE IF Has(ollamaRes, "embeddings") /\ Len(ollamaRes.embeddings) > 0
         THEN ollamaRes.embeddings
         ELSE IF Has(ollamaRes, "embedding") THEN <<ollamaRes.embedding>>
         ELSE <<>>

\* transformEmbeddingsResponse(ollamaRes, model), the data
TransformEmbeddingsResponse(copy, ollamaRes) ==
    LET embeddings == EmbeddingsOf(copy, ollamaRes)
    IN  [data |-> [i \in 1..Len(embeddings) |->
                      [index |-> i - 1, embedding |-> embeddings[i]]]]

\* POST /v1/embeddings, the upstream response translated: part_002 line 494
XEmbeddings ==
    /\ xOp = "none"
    /\ \E copy \in Copies, ollamaRes \in EmbedResponses :
         /\ xCopy' = copy
         /\ xOp' = "embeddings"
         /\ xIn' = ollamaRes
         /\ xOut' = TransformEmbeddingsResponse(copy, ollamaRes)
    /\ UNCHANGED notX

\* transformChatResponse(ollamaRes, model), the finish reason: lines 224 and
\* 235-248, the same in both copies
TransformChatResponse(ollamaRes) ==
    LET message == MessageOf(ollamaRes)
    IN  [finish_reason |->
            IF Has(message, "tool_calls") THEN "tool_calls"
            ELSE MapFinishReason(StringOf(ollamaRes, "done_reason"), message),
         tool_calls |-> ToolCallsOf(message)]

\* POST /v1/chat/completions, the non-streaming upstream response translated:
\* part_002 line 267
XChatResponse ==
    /\ xOp = "none"
    /\ \E copy \in Copies, ollamaRes \in DoneChunks :
         /\ xCopy' = copy
         /\ xOp' = "response"
         /\ xIn' = ollamaRes
         /\ xOut' = TransformChatResponse(ollamaRes)
    /\ UNCHANGED notX

\* the call is over
XReturn ==
    /\ xOp # "none"
    /\ xOp' = "none"
    /\ xIn' = EmptyObject
    /\ xOut' = EmptyObject
    /\ UNCHANGED <<xCopy, notX>>

XNext ==
    XRequest \/ XStreamStart \/ XStreamLine \/ XEmbeddings \/ XChatResponse \/ XReturn

(***************************************************************************)
(* Channel selection by model and model remap: selectChannel and           *)
(* resolveModel of src/src/core/channelManager.js, resolveBackend and      *)
(* proxyWithRetry of src/unnamed/part_002. Model names are sequences of    *)
(* characters.                                                             *)
(***************************************************************************)
\* most attempts of one request
MaxSelAttempts == 2

\* the models lists of a channel: empty, or one entry
ChannelModelLists ==
    {{}} \cup {{m} : m \in {<<"a">>, <<"a", "*">>, <<".", "*">>, <<"*">>}}

\* the modelMapping objects of a channel: {} or {b: "c"}
ChannelMappings == {EmptyObject, <<"b">> :> <<"c">>}

\* the models requested
RequestedModels == {<<"a">>, <<"b">>, <<"a", "b">>, <<".", "a">>}

\* maxConcurrent and currentConcurrent of a channel
CapStates == {<<0, 1>>, <<1, 0>>, <<1, 1>>}

FullChannels ==
    {[enabled |-> e, healthy |-> h, priority |-> p, weight |-> 10,
      maxConcurrent |-> cap[1], currentConcurrent |-> cap[2],
      models |-> ms, modelMapping |-> mm] :
        e \in BOOLEAN, h \in BOOLEAN, p \in {1, 2}, cap \in CapStates,
        ms \in ChannelModelLists, mm \in ChannelMappings}

\* lines 192-200: the channel supports the model
SupportsModel(ch, model) ==
    ch.models # {} =>
        LET hasModel ==
                \E m \in ch.models :
                    IF \E i \in 1..Len(m) : m[i] = "*" THEN RegexTest(m, model)
                    ELSE m = model
            hasMappedModel == model \in DOMAIN ch.modelMapping
        IN  hasModel \/ hasMappedModel

\* the filter of selectChannel(model), lines 187-205
EligibleFor(chs, model) ==
    {c \in Channels :
        /\ chs[c].enabled
        /\ chs[c].healthy
        /\ ~(chs[c].maxConcurrent > 0 /\ chs[c].currentConcurrent >= chs[c].maxConcurrent)
        /\ SupportsModel(chs[c], model)}

\* selectChannel(model): the channels it can return, the empty set for null;
\* lines 207-226, the weighted draw returning any channel of the top group
SelectChannelFor(chs, model) ==
    LET eligible == EligibleFor(chs, model)
    IN  {c \in eligible : \A d \in eligible : chs[d].priority <= chs[c].priority}

\* mutant of ResolveModel: the model is never mapped
ResolveModelNever(ch, requestedModel) == requestedModel

\* resolveModel(channel, requestedModel)
ResolveModel(ch, requestedModel) ==
    IF requestedModel \in DOMAIN ch.modelMapping /\ ch.modelMapping[requestedModel] # <<>>
    THEN ch.modelMapping[requestedModel]
    ELSE requestedModel

\* proxyWithRetry lines 127-131: the body sent upstream
ActualBody(body, resolvedModel) ==
    IF body.model # <<>> /\ resolvedModel # body.model
    THEN [body EXCEPT !.model = resolvedModel]
    ELSE body

NoSelReq == [pc |-> "boot", model |-> <<>>, body |-> EmptyObject, attempts |-> <<>>]

\* the channels are loaded; the flat key store holds no key
SelLoad ==
    /\ selReq.pc = "boot"
    /\ \E c1 \in FullChannels,
          c2 \in {ch \in FullChannels : ch.healthy /\ ch.currentConcurrent = 1} :
            selChannels' = [c \in Channels |-> IF c = "c1" THEN c1 ELSE c2]
    /\ selReq' = [NoSelReq EXCEPT !.pc = "idle"]
    /\ UNCHANGED notSel

\* a handler calls proxyWithRetry(apiPath, method, body, isStream, model)
\* with the translated request
SelStart ==
    /\ selReq.pc = "idle"
    /\ \E model \in RequestedModels :
         selReq' = [selReq EXCEPT !.pc = "attempt", !.model = model,
                                  !.body = [model |-> model, stream |-> FALSE]]
    /\ UNCHANGED <<selChannels, notSel>>

\* one iteration of the loop of proxyWithRetry up to the fetch, lines
\* 121-133, with resolveBackend(model), lines 83-102; the attempt then fails
SelAttempt ==
    /\ selReq.pc = "attempt"
    /\ Len(selReq.attempts) < MaxSelAttempts
    /\ IF SelectChannelFor(selChannels, selReq.model) = {}
       THEN /\ selReq' = [selReq EXCEPT
                            !.pc = "done",
                            !.attempts = Append(@, [channel |-> None, source |-> "keystore",
                                                    sent |-> EmptyObject])]
            /\ UNCHANGED selChannels
       ELSE \E c \in SelectChannelFor(selChannels, selReq.model) :
              LET resolvedModel == ResolveModel(selChannels[c], selReq.model)
              IN  /\ selReq' = [selReq EXCEPT
                                  !.attempts =
                                     Append(@, [channel |-> c, source |-> "channel",
                                                sent |-> ActualBody(selReq.body,
                                                                    resolvedModel)])]
                  /\ selChannels' = AcquireConcurrency(selChannels, c)
    /\ UNCHANGED notSel

\* the request is over
SelReturn ==
    /\ selReq.pc \in {"attempt", "done"}
    /\ selReq.attempts # <<>>
    /\ selReq' = [NoSelReq EXCEPT !.pc = "over"]
    /\ UNCHANGED <<selChannels, notSel>>

SelNext == SelLoad \/ SelStart \/ SelAttempt \/ SelReturn

(***************************************************************************)
(* RateLimiter.check over its three counters (src/core/rateLimiter.js)     *)
(***************************************************************************)
MaxCheckTime == 5

\* the constructor reads the three RATE_LIMIT_*_ENABLED switches
CheckConfigs ==
    [booted : {TRUE}, globalEnabled : BOOLEAN, ipEnabled : BOOLEAN,
     tokenEnabled : BOOLEAN]

NoCheckConfig ==
    [booted |-> FALSE, globalEnabled |-> FALSE, ipEnabled |-> FALSE,
     tokenEnabled |-> FALSE]

NoCheckCall ==
    [ip |-> None, tokenId |-> None, at |-> 0, allowed |-> TRUE,
     limitType |-> "none", retryAfter |-> 0]

\* new RateLimiter()
CkBoot ==
    /\ ~ckConfig.booted
    /\ \E cfg \in CheckConfigs : ckConfig' = cfg
    /\ UNCHANGED <<ckWindows, ckNow, ckCall, notCk>>

\* the clock advances
CkTick ==
    /\ ckConfig.booted
    /\ ckNow < MaxCheckTime
    /\ ckNow' = ckNow + 1
    /\ UNCHANGED <<ckConfig, ckWindows, ckCall, notCk>>

\* rateLimiter.check(ip, tokenId)
CkCheck(ip, tokenId) ==
    /\ ckConfig.booted
    /\ LET result == Check(ckWindows, ip, tokenId, ckConfig, ckNow)
       IN  /\ ckWindows' = result.windows
           /\ ckCall' = [ip |-> ip, tokenId |-> tokenId, at |-> ckNow,
                         allowed |-> result.allowed,
                         limitType |-> result.limitType,
                         retryAfter |-> result.retryAfter]
    /\ UNCHANGED <<ckConfig, ckNow, notCk>>

\* the callers: either address, with the token t1 or with none
CheckTokens == {"t1", None}

CkCheckAny == \E ip \in IPs, tokenId \in CheckTokens : CkCheck(ip, tokenId)

CkNext == CkBoot \/ CkTick \/ CkCheckAny

(***************************************************************************)
(* Adding credentials: parseKeyString, addKey and batchImport of KeyStore  *)
(* (src/src/core/keyStore.js).  A string is a tuple of tokens: "h" and "o" *)
(* are the origins https://h and https://ollama.com, "sk-a" and "sk-b"     *)
(* short keys, "sk-long" a key of 20 characters or more, the others stand  *)
(* for themselves.                                                         *)
(***************************************************************************)
MaxUuids == 3

\* the lines an administrator submits
RawLines ==
    {<<"sk-a", " ">>, <<"h", "|", "sk-a">>, <<"sk-a", "|", "h", "/">>,
     <<"h", "/", "api", "#", "sk-a">>, <<"o", "/", "sk-long">>,
     <<"sk-long", "|", "o">>, <<"#", "sk-a">>, <<" ">>}

\* the lines of the texts submitted to batchImport
BatchLines ==
    {<<"sk-a", " ">>, <<"sk-a", "|", "h", "/">>, <<"h", "/", "api", "#", "sk-a">>,
     <<"sk-long", "|", "o">>, <<"#", "sk-a">>}

\* the defaultBaseUrl argument, <<>> when it is not given
DefaultBaseUrls == {<<>>, <<"h">>}

\* str.startsWith('http')
StartsWithHttp(str) == str # <<>> /\ Head(str) \in {"h", "o"}

\* str.endsWith(suffix)
EndsWith(str, suffix) ==
    /\ Len(str) >= Len(suffix)
    /\ SubSeq(str, Len(str) - Len(suffix) + 1, Len(str)) = suffix

DropLast(str, n) == SubSeq(str, 1, Len(str) - n)

\* str.replace(/\/+$/, '')
RECURSIVE StripSlashes(_)
StripSlashes(str) ==
    IF EndsWith(str, <<"/">>) THEN StripSlashes(DropLast(str, 1)) ELSE str

\* str.indexOf(token), str.lastIndexOf(token); 0 when there is none
IndexOf(str, token) ==
    IF \E i \in 1..Len(str) : str[i] = token
    THEN CHOOSE i \in 1..Len(str) : str[i] = token /\ \A j \in 1..(i - 1) : str[j] # token
    ELSE 0

LastIndexOf(str, token) ==
    IF \E i \in 1..Len(str) : str[i] = token
    THEN CHOOSE i \in 1..Len(str) :
            str[i] = token /\ \A j \in (i + 1)..Len(str) : str[j] # token
    ELSE 0

\* lines 227-236: the stored form of a base URL
NormalizeBaseUrl(baseUrl) ==
    LET noApi == IF EndsWith(baseUrl, <<"/", "api", "/">>) THEN DropLast(baseUrl, 3)
                 ELSE IF EndsWith(baseUrl, <<"/", "api">>) THEN DropLast(baseUrl, 2)
                 ELSE baseUrl
    IN  IF ~EndsWith(noApi, <<"/", "api">>) /\ IndexOf(noApi, "o") # 0
        THEN (IF EndsWith(noApi, <<"/">>) THEN DropLast(noApi, 1) ELSE noApi)
             \o <<"/", "api">>
        ELSE noApi

\* parseKeyString returned null
NoCredential == [id |-> 0, key |-> <<>>, baseUrl |-> <<>>, enabled |-> FALSE]

\* parseKeyString(raw, defaultBaseUrl), id the value of crypto.randomUUID()
ParseKeyString(raw0, defaultBaseUrl, id) ==
    LET raw == Trim(raw0)
        default == IF defaultBaseUrl # <<>> THEN defaultBaseUrl ELSE <<"o", "/", "api">>
        bar == IndexOf(raw, "|")
        hash == LastIndexOf(raw, "#")
        before(i) == SubSeq(raw, 1, i - 1)
        after(i) == SubSeq(raw, i + 1, Len(raw))
        parsed ==
            IF bar # 0
            THEN IF StartsWithHttp(before(bar))
                 THEN [baseUrl |-> StripSlashes(Trim(before(bar))), key |-> Trim(after(bar))]
                 ELSE [key |-> Trim(before(bar)), baseUrl |-> StripSlashes(Trim(after(bar)))]
            ELSE IF hash # 0 /\ StartsWithHttp(raw)
            THEN [baseUrl |-> StripSlashes(Trim(before(hash))), key |-> Trim(after(hash))]
            ELSE IF StartsWithHttp(raw) /\ EndsWith(raw, <<"/", "sk-long">>)
            THEN [baseUrl |-> StripSlashes(Trim(before(Len(raw)))),
                  key |-> Trim(after(Len(raw) - 1))]
            ELSE [key |-> raw, baseUrl |-> default]
    IN  IF raw = <<>> THEN NoCredential
        ELSE [id |-> id, key |-> parsed.key,
              baseUrl |-> NormalizeBaseUrl(parsed.baseUrl), enabled |-> TRUE]

\* mutant of FindExisting: only the key is compared with itself, never found
FindExistingNever(creds, keyObj) == 0

\* this.keys.find(k => k.key === keyObj.key && k.baseUrl === keyObj.baseUrl):
\* the position of the first such credential, 0 when there is none
FindExisting(creds, keyObj) ==
    IF \E i \in 1..Len(creds) :
          creds[i].key = keyObj.key /\ creds[i].baseUrl = keyObj.baseUrl
    THEN CHOOSE i \in 1..Len(creds) :
            /\ creds[i].key = keyObj.key /\ creds[i].baseUrl = keyObj.baseUrl
            /\ \A j \in 1..(i - 1) :
                  ~(creds[j].key = keyObj.key /\ creds[j].baseUrl = keyObj.baseUrl)
    ELSE 0

\* the lines batchImport keeps of its text: trimmed, not empty, no comment
ImportedLines(text) ==
    SelectSeq([i \in 1..Len(text) |-> Trim(text[i])],
              LAMBDA l : l # <<>> /\ Head(l) # "#")

\* the loop of batchImport over its lines, uuids ids handed out before
RECURSIVE ImportLines(_, _, _, _)
ImportLines(st, lines, defaultBaseUrl, uuids) ==
    IF lines = <<>> THEN st
    ELSE LET keyObj == ParseKeyString(Head(lines), defaultBaseUrl, uuids + 1)
             existing == FindExisting(st.keys, keyObj)
             next == IF existing # 0
                     THEN [st EXCEPT !.duplicates = Append(@, st.keys[existing].id)]
                     ELSE [st EXCEPT !.keys = Append(@, keyObj),
                                     !.added = Append(@, keyObj.id)]
         IN  ImportLines(next, Tail(lines), defaultBaseUrl, uuids + 1)

\* ksRet before any call
NoImport == [op |-> "none", text |-> <<>>, defaultBaseUrl |-> <<>>, added |-> <<>>,
             duplicates |-> <<>>]

\* what a call returned, with the call
Returned(op, text, defaultBaseUrl, added, duplicates) ==
    [op |-> op, text |-> text, defaultBaseUrl |-> defaultBaseUrl, added |-> added,
     duplicates |-> duplicates]

\* addKey(rawKey, defaultBaseUrl)
KsAddKey(rawKey, defaultBaseUrl) ==
    /\ ksUuids < MaxUuids
    /\ LET keyObj == ParseKeyString(rawKey, defaultBaseUrl, ksUuids + 1)
           existing == FindExisting(ksKeys, keyObj)
       IN  IF keyObj = NoCredential
           THEN /\ ksRet' = Returned("addKey", <<rawKey>>, defaultBaseUrl, <<>>, <<>>)
                /\ UNCHANGED <<ksKeys, ksUuids>>
           ELSE /\ ksUuids' = ksUuids + 1
                /\ IF existing # 0
                   THEN /\ ksRet' = Returned("addKey", <<rawKey>>, defaultBaseUrl, <<>>,
                                             <<ksKeys[existing].id>>)
                        /\ UNCHANGED ksKeys
                   ELSE /\ ksKeys' = Append(ksKeys, keyObj)
                        /\ ksRet' = Returned("addKey", <<rawKey>>, defaultBaseUrl,
                                             <<keyObj.id>>, <<>>)
    /\ UNCHANGED notKs

\* batchImport(text, defaultBaseUrl), text two lines
KsBatchImport(text, defaultBaseUrl) ==
    /\ ksUuids + Len(ImportedLines(text)) <= MaxUuids
    /\ LET done == ImportLines([keys |-> ksKeys, added |-> <<>>, duplicates |-> <<>>],
                               ImportedLines(text), defaultBaseUrl, ksUuids)
       IN  /\ ksKeys' = done.keys
           /\ ksUuids' = ksUuids + Len(ImportedLines(text))
           /\ ksRet' = Returned("batchImport", text, defaultBaseUrl, done.added,
                                done.duplicates)
    /\ UNCHANGED notKs

\* removeKey(id)
KsRemoveKey(id) ==
    /\ \E i \in 1..Len(ksKeys) : ksKeys[i].id = id
    /\ ksKeys' = SelectSeq(ksKeys, LAMBDA k : k.id # id)
    /\ ksRet' = Returned("removeKey", <<>>, <<>>, <<>>, <<>>)
    /\ UNCHANGED <<ksUuids, notKs>>

\* toggleKey(id)
KsToggleKey(id) ==
    /\ \E i \in 1..Len(ksKeys) : ksKeys[i].id = id
    /\ ksKeys' = [i \in 1..Len(ksKeys) |->
                    IF ksKeys[i].id = id THEN [ksKeys[i] EXCEPT !.enabled = ~@]
                    ELSE ksKeys[i]]
    /\ ksRet' = Returned("toggleKey", <<>>, <<>>, <<>>, <<>>)
    /\ UNCHANGED <<ksUuids, notKs>>

\* clearAll()
KsClearAll ==
    /\ ksKeys # <<>>
    /\ ksKeys' = <<>>
    /\ ksRet' = Returned("clearAll", <<>>, <<>>, <<>>, <<>>)
    /\ UNCHANGED <<ksUuids, notKs>>

KsNext ==
    \/ \E rawKey \in RawLines, d \in DefaultBaseUrls : KsAddKey(rawKey, d)
    \/ \E l1 \in BatchLines, l2 \in BatchLines, d \in DefaultBaseUrls :
          KsBatchImport(<<l1, l2>>, d)
    \/ \E id \in 1..MaxUuids : KsRemoveKey(id)
    \/ \E id \in 1..MaxUuids : KsToggleKey(id)
    \/ KsClearAll

(***************************************************************************)
(* The write-behind of keys.json: _save, _doSave, _saveSync and flushSync  *)
(* of KeyStore (src/src/core/keyStore.js) and gracefulShutdown (app.js).   *)
(* One tick of the clock stands for 250 ms.                                *)
(***************************************************************************)
\* _saveDelay, in ticks
SaveDelay == 2

MaxMutations == 3
MaxSaveTime == 5

\* recordSuccess, recordFailure, checkKeyHealth, getNextKey: a mutation
\* followed by _save(); requests still being served after gracefulShutdown
\* get here too
WbSave ==
    /\ wbPhase \in {"run", "draining"}
    /\ wbKeys < MaxMutations
    /\ wbKeys' = wbKeys + 1
    /\ wbSaveTimer' = wbNow + SaveDelay
    /\ UNCHANGED <<wbFile, wbWriting, wbNow, wbPhase, notWb>>

\* addKey, removeKey, toggleKey, clearAll: a mutation followed by _saveSync()
WbSaveSync ==
    /\ wbPhase \in {"run", "draining"}
    /\ wbKeys < MaxMutations
    /\ wbKeys' = wbKeys + 1
    /\ wbSaveTimer' = 0
    /\ wbFile' = wbKeys'
    /\ UNCHANGED <<wbWriting, wbNow, wbPhase, notWb>>

\* the clock advances, not past the time a timer is due
WbTick ==
    /\ wbPhase \in {"run", "draining"}
    /\ wbNow < MaxSaveTime
    /\ wbSaveTimer = 0 \/ wbNow < wbSaveTimer
    /\ wbNow' = wbNow + 1
    /\ UNCHANGED <<wbKeys, wbFile, wbSaveTimer, wbWriting, wbPhase, notWb>>

\* the callback of _saveTimer: _doSave serialises the keys and starts
\* fs.writeFile
WbTimerFires ==
    /\ wbPhase \in {"run", "draining"}
    /\ wbSaveTimer # 0 /\ wbNow >= wbSaveTimer
    /\ wbSaveTimer' = 0
    /\ wbWriting' = wbWriting \cup {wbKeys}
    /\ UNCHANGED <<wbKeys, wbFile, wbNow, wbPhase, notWb>>

\* fs.writeFile finishes writing the content it was given
WbWritten(data) ==
    /\ wbPhase \in {"run", "draining"}
    /\ data \in wbWriting
    /\ wbFile' = data
    /\ wbWriting' = wbWriting \ {data}
    /\ UNCHANGED <<wbKeys, wbSaveTimer, wbNow, wbPhase, notWb>>

\* gracefulShutdown: keyStore.flushSync(), then server.close waits for the
\* requests being served
WbShutdown ==
    /\ wbPhase = "run"
    /\ wbSaveTimer' = 0
    /\ wbFile' = wbKeys
    /\ wbPhase' = "draining"
    /\ UNCHANGED <<wbKeys, wbWriting, wbNow, notWb>>

\* process.exit in the callback of server.close or after the 5 s timeout
WbExit ==
    /\ wbPhase = "draining"
    /\ wbPhase' = "exited"
    /\ UNCHANGED <<wbKeys, wbFile, wbSaveTimer, wbWriting, wbNow, notWb>>

WbNext ==
    \/ WbSave \/ WbSaveSync \/ WbTick \/ WbTimerFires
    \/ \E data \in 0..MaxMutations : WbWritten(data)
    \/ WbShutdown \/ WbExit

(***************************************************************************)
(* Token usage: createToken, recordUsage, updateToken, deleteToken and the *)
(* quota reset of TokenManager (src/unnamed/part_005), from an empty       *)
(* registry.  Instants are days.                                           *)
(***************************************************************************)
MaxUsageDay == 3
MaxUsageCalls == 2

Days == 1..MaxUsageDay

\* promptTokens and completionTokens of one call
UsageAmounts == {<<0, 0>>, <<1, 2>>}

NoDay == [requests |-> 0, promptTokens |-> 0, completionTokens |-> 0]

\* no entry of _usageStats for a token
NoStats == [d \in Days |-> NoDay]

\* createToken lines 144-161
CreatedToken(quotaLimit, at) ==
    [present |-> TRUE, enabled |-> TRUE, quotaLimit |-> quotaLimit, quotaUsed |-> 0,
     quotaResetAt |-> NextMonthStart(at), totalRequests |-> 0, totalTokens |-> 0]

\* recordUsage lines 225-228
UsageRecorded(tokenObj, promptTokens, completionTokens) ==
    [tokenObj EXCEPT !.totalRequests = @ + 1,
                     !.totalTokens = @ + promptTokens + completionTokens,
                     !.quotaUsed = @ + promptTokens + completionTokens]

\* mutant of DayRecorded: the day's entry is started afresh by every call
DayRecordedAfresh(stats, today, promptTokens, completionTokens) ==
    [stats EXCEPT ![today] = [requests |-> 1, promptTokens |-> promptTokens,
                              completionTokens |-> completionTokens]]

\* recordUsage lines 232-239
DayRecorded(stats, today, promptTokens, completionTokens) ==
    [stats EXCEPT ![today] = [requests |-> @.requests + 1,
                              promptTokens |-> @.promptTokens + promptTokens,
                              completionTokens |-> @.completionTokens + completionTokens]]

Called(op, id) == [op |-> op, id |-> id]

\* createToken(options)
UCreateToken(id, quotaLimit) ==
    /\ id \notin uIssued
    /\ uIssued' = uIssued \cup {id}
    /\ uTokens' = [uTokens EXCEPT ![id] = CreatedToken(quotaLimit, uToday)]
    /\ uRet' = Called("createToken", id)
    /\ UNCHANGED <<uStats, uToday, notU>>

\* recordUsage(tokenId, promptTokens, completionTokens)
URecordUsage(id, promptTokens, completionTokens) ==
    /\ uRet' = Called("recordUsage", id)
    /\ IF ~uTokens[id].present THEN UNCHANGED <<uTokens, uStats>>
       ELSE /\ uTokens[id].totalRequests < MaxUsageCalls
            /\ uTokens' = [uTokens EXCEPT
                              ![id] = UsageRecorded(@, promptTokens, completionTokens)]
            /\ uStats' = [uStats EXCEPT
                             ![id] = DayRecorded(@, uToday, promptTokens, completionTokens)]
    /\ UNCHANGED <<uToday, uIssued, notU>>

\* updateToken(id, {enabled, quotaLimit})
UUpdateToken(id, enabled, quotaLimit) ==
    /\ uRet' = Called("updateToken", id)
    /\ IF ~uTokens[id].present THEN UNCHANGED uTokens
       ELSE uTokens' = [uTokens EXCEPT ![id].enabled = enabled,
                                       ![id].quotaLimit = quotaLimit]
    /\ UNCHANGED <<uStats, uToday, uIssued, notU>>

\* deleteToken(id)
UDeleteToken(id) ==
    /\ uTokens[id].present
    /\ uTokens' = [uTokens EXCEPT ![id] = NoToken]
    /\ uStats' = [uStats EXCEPT ![id] = NoStats]
    /\ uRet' = Called("deleteToken", id)
    /\ UNCHANGED <<uToday, uIssued, notU>>

\* a day passes
UTick ==
    /\ uToday < MaxUsageDay
    /\ uToday' = uToday + 1
    /\ UNCHANGED <<uTokens, uStats, uIssued, uRet, notU>>

\* the process starts again on what it saved: the constructor's
\* _checkQuotaReset
URestart ==
    /\ uTokens' = CheckQuotaReset(uTokens, uToday)
    /\ uRet' = Called("restart", None)
    /\ UNCHANGED <<uStats, uToday, uIssued, notU>>

UNext ==
    \/ \E id \in TokenIds, quotaLimit \in {0, 2} : UCreateToken(id, quotaLimit)
    \/ \E id \in TokenIds, a \in UsageAmounts : URecordUsage(id, a[1], a[2])
    \/ \E id \in TokenIds, enabled \in BOOLEAN, quotaLimit \in {0, 2} :
          UUpdateToken(id, enabled, quotaLimit)
    \/ \E id \in TokenIds : UDeleteToken(id)
    \/ UTick
    \/ URestart

(***************************************************************************)
(* LRUCache (src/src/core/metrics.js lines 426-596).  Values are 1 and 2;  *)
(* 0 stands for null.                                                      *)
(***************************************************************************)
MaxCacheSize == 2
MaxAge == 1
MaxCacheTime == 3

CacheKeys == {"a", "b", "c"}
CacheValues == {1, 2}

\* the position of the key in the Map, 0 when it has no entry
PositionOf(cache, key) ==
    IF \E i \in 1..Len(cache) : cache[i].key = key
    THEN CHOOSE i \in 1..Len(cache) : cache[i].key = key
    ELSE 0

\* this.cache.delete(key)
Without(cache, key) == SelectSeq(cache, LAMBDA e : e.key # key)

\* Date.now() - item.timestamp > this.maxAge
Expired(item, at) == at - item.timestamp > MaxAge

\* mutant of CacheGet: a hit leaves the entry where it is
CacheGetInPlace(cache, key, at) ==
    LET i == PositionOf(cache, key)
    IN  IF i = 0 THEN [cache |-> cache, value |-> 0, hit |-> FALSE]
        ELSE IF Expired(cache[i], at)
             THEN [cache |-> Without(cache, key), value |-> 0, hit |-> FALSE]
        ELSE [cache |-> cache, value |-> cache[i].value, hit |-> TRUE]

\* get(key): the Map afterwards and the value returned
CacheGet(cache, key, at) ==
    LET i == PositionOf(cache, key)
    IN  IF i = 0 THEN [cache |-> cache, value |-> 0, hit |-> FALSE]
        ELSE IF Expired(cache[i], at)
             THEN [cache |-> Without(cache, key), value |-> 0, hit |-> FALSE]
        ELSE [cache |-> Append(Without(cache, key), cache[i]),
              value |-> cache[i].value, hit |-> TRUE]

\* set(key, value): the Map afterwards
CacheSet(cache, key, value, at, maxSize) ==
    LET removed == Without(cache, key)
        room == IF Len(removed) >= maxSize THEN Tail(removed) ELSE removed
    IN  Append(room, [key |-> key, value |-> value, timestamp |-> at])

\* the key has been used
Touch(used, key) == Append(SelectSeq(used, LAMBDA k : k # key), key)

CacheCalled(op, key, value) == [op |-> op, key |-> key, value |-> value]

\* new LRUCache(maxSize, maxAge)
LruNew(maxSize) ==
    /\ lruMaxSize = 0
    /\ lruMaxSize' = maxSize
    /\ UNCHANGED <<lruCache, lruNow, lruRet, lruUsed, notLru>>

LruTick ==
    /\ lruMaxSize # 0
    /\ lruNow < MaxCacheTime
    /\ lruNow' = lruNow + 1
    /\ UNCHANGED <<lruMaxSize, lruCache, lruRet, lruUsed, notLru>>

LruGet(key) ==
    /\ lruMaxSize # 0
    /\ LET got == CacheGet(lruCache, key, lruNow)
       IN  /\ lruCache' = got.cache
           /\ lruRet' = CacheCalled("get", key, got.value)
           /\ lruUsed' = IF got.hit THEN Touch(lruUsed, key) ELSE lruUsed
    /\ UNCHANGED <<lruMaxSize, lruNow, notLru>>

LruSet(key, value) ==
    /\ lruMaxSize # 0
    /\ lruCache' = CacheSet(lruCache, key, value, lruNow, lruMaxSize)
    /\ lruRet' = CacheCalled("set", key, 0)
    /\ lruUsed' = Touch(lruUsed, key)
    /\ UNCHANGED <<lruMaxSize, lruNow, notLru>>

\* has(key): 1 for true, 0 for false
LruHas(key) ==
    /\ lruMaxSize # 0
    /\ LET i == PositionOf(lruCache, key)
       IN  IF i # 0 /\ ~Expired(lruCache[i], lruNow)
           THEN /\ lruRet' = CacheCalled("has", key, 1)
                /\ UNCHANGED lruCache
           ELSE /\ lruRet' = CacheCalled("has", key, 0)
                /\ lruCache' = Without(lruCache, key)
    /\ UNCHANGED <<lruMaxSize, lruNow, lruUsed, notLru>>

LruDelete(key) ==
    /\ lruMaxSize # 0
    /\ lruCache' = Without(lruCache, key)
    /\ lruRet' = CacheCalled("delete", key, 0)
    /\ UNCHANGED <<lruMaxSize, lruNow, lruUsed, notLru>>

LruCleanup ==
    /\ lruMaxSize # 0
    /\ lruCache' = SelectSeq(lruCache, LAMBDA e : ~Expired(e, lruNow))
    /\ lruRet' = CacheCalled("cleanup", None, 0)
    /\ UNCHANGED <<lruMaxSize, lruNow, lruUsed, notLru>>

LruClear ==
    /\ lruMaxSize # 0
    /\ lruCache' = <<>>
    /\ lruRet' = CacheCalled("clear", None, 0)
    /\ UNCHANGED <<lruMaxSize, lruNow, lruUsed, notLru>>

LruNext ==
    \/ \E maxSize \in 1..MaxCacheSize : LruNew(maxSize)
    \/ LruTick
    \/ \E key \in CacheKeys : LruGet(key)
    \/ \E key \in CacheKeys, value \in CacheValues : LruSet(key, value)
    \/ \E key \in CacheKeys : LruHas(key)
    \/ \E key \in CacheKeys : LruDelete(key)
    \/ LruCleanup
    \/ LruClear

(***************************************************************************)
(* Specifications                                                          *)
(***************************************************************************)
\* the state after construction: an empty rate limiter at time 1, two
\* channels with no request in flight, two credentials with the cursor at 0
Init ==
    /\ now = 1
    /\ windows = [k \in RLKeys |-> NoEntry]
    /\ rlResult = NoResult
    /\ allowedLog = [k \in RLKeys |-> <<>>]
    /\ channels = InitChannels
    /\ adminOps = 0
    /\ req = [r \in Reqs |-> InitReq]
    /\ keys = [k \in FKeys |-> NewKey]
    /\ currentIndex = 0
    /\ freq = [f \in FReqs |-> InitFlatReq]
    /\ sInput = <<>>
    /\ sRest = <<>>
    /\ sBuffer = <<>>
    /\ sFrames = <<>>
    /\ sPc = "idle"
    /\ rrKeys = <<>>
    /\ rrIndex = 0
    /\ rrIndexMod = 0
    /\ rrServed = <<>>
    /\ rrServedMod = <<>>
    /\ rrPc = "boot"
    /\ storeKeys = <<>>
    /\ storeIndex = 0
    /\ storeCache = NoCache
    /\ storeRet = NoReturn
    /\ storeRecords = 0
    /\ storePc = "boot"
    /\ qChannels = InitChannels
    /\ qRecords = 0
    /\ tTokens = [id \in TokenIds |-> NoToken]
    /\ tNow = 1
    /\ tResult = NoValidation
    /\ tPc = "boot"
    /\ gPolicy = [mode |-> "disabled", whitelist |-> {}, blacklist |-> {}]
    /\ gConfig = [apiToken |-> "", globalEnabled |-> TRUE, ipEnabled |-> TRUE,
                  tokenEnabled |-> TRUE]
    /\ gWindows = NoWindows
    /\ gLog = <<>>
    /\ gPc = "boot"
    /\ scopeReq = NoScopeReq
    /\ acPolicy = [mode |-> "disabled", whitelist |-> {}, blacklist |-> {}]
    /\ acIp = NoAddr
    /\ acResult = TRUE
    /\ xCopy = "transformer.js"
    /\ xOp = "none"
    /\ xIn = EmptyObject
    /\ xOut = EmptyObject
    /\ selChannels = [c \in Channels |-> EmptyObject]
    /\ selReq = NoSelReq
    /\ ckConfig = NoCheckConfig
    /\ ckWindows = NoWindows
    /\ ckNow = 1
    /\ ckCall = NoCheckCall
    /\ ksKeys = <<>>
    /\ ksUuids = 0
    /\ ksRet = NoImport
    /\ wbKeys = 0
    /\ wbFile = 0
    /\ wbSaveTimer = 0
    /\ wbWriting = {}
    /\ wbNow = 1
    /\ wbPhase = "run"
    /\ uTokens = [id \in TokenIds |-> NoToken]
    /\ uStats = [id \in TokenIds |-> NoStats]
    /\ uToday = 1
    /\ uIssued = {}
    /\ uRet = Called("none", None)
    /\ lruMaxSize = 0
    /\ lruCache = <<>>
    /\ lruNow = 1
    /\ lruRet = CacheCalled("none", None, 0)
    /\ lruUsed = <<>>

\* the sliding-window counter alone
SpecRL == Init /\ [][RLNext]_vars

\* the chat completions pipeline over the channel registry
Spec == Init /\ [][PipeNext]_vars

\* the retry loop over the flat credential pool
SpecFlat == Init /\ [][FlatNext]_vars

\* the line relay of one streaming response
SpecStream == Init /\ [][StreamNext]_vars


\* getNextKey calls on a stable credential array
SpecRR == Init /\ [][RRNext]_vars


\* the key store under every operation
SpecKeys == Init /\ [][StoreNext]_vars


\* the health of the channels
SpecQuarantine == Init /\ [][QNext]_vars


\* the token registry
SpecTokens == Init /\ [][TNext]_vars


\* the gates of /v1
SpecGate == Init /\ [][GateNext]_vars


\* model scoping
SpecScope == Init /\ [][ScopeNext]_vars


\* access control
SpecAccess == Init /\ [][AccessNext]_vars


\* the translator
SpecTransform == Init /\ [][XNext]_vars


\* channel selection by model, and the model remap
SpecSelect == Init /\ [][SelNext]_vars


\* the three counters behind RateLimiter.check
SpecCheck == Init /\ [][CkNext]_vars


\* adding, importing and removing credentials, from an empty store
SpecAdd == Init /\ [][KsNext]_vars


\* the write-behind of keys.json up to the exit of the process
SpecSave == Init /\ [][WbNext]_vars


\* token usage, from an empty registry
SpecUsage == Init /\ [][UNext]_vars


\* the counters of the credentials and of the channels
SpecCounters == Init /\ [][CountersNext]_vars


\* one LRUCache
SpecCache == Init /\ [][LruNext]_vars

(***************************************************************************)
(* C1                                                                      *)
(***************************************************************************)
\* C1: rate-limit soundness. For every key and every instant, the interval of
\* length WindowMs that ends at that instant holds at most MaxRequests calls
\* that returned allowed = true.
C1_RateLimitSoundness ==
    \A k \in RLKeys : Len(allowedLog[k]) <= MaxRequests

(***************************************************************************)
(* C2, C3: channel concurrency                                             *)
(***************************************************************************)
\* the attempts in flight on channel c: selected, and neither answered, failed
\* nor (for a stream) ended
InFlight(c) ==
    Cardinality({r \in Reqs : req[r].backend = c /\ req[r].pc \in {"fetch", "relay"}})

\* C2: channel concurrency accounting. With no operator action in between,
\* currentConcurrent of every channel equals the number of attempts in flight
\* on it (so it is 0 when none is in flight).
C2_ConcurrencyAccounting ==
    adminOps = 0 =>
        \A c \in Channels : channels[c].currentConcurrent = InFlight(c)

\* C3: in every reachable state, under any interleaving of selections, attempt
\* completions and admin channel updates, every channel with a positive cap
\* has currentConcurrent <= maxConcurrent.
C3_CapInvariant ==
    \A c \in Channels :
        channels[c].maxConcurrent > 0 =>
            channels[c].currentConcurrent <= channels[c].maxConcurrent

\* a step keeps channel c within its positive cap unless it changes the cap
CapKept(c) ==
    (/\ channels[c].maxConcurrent > 0
     /\ channels'[c].maxConcurrent = channels[c].maxConcurrent
     /\ channels[c].currentConcurrent <= channels[c].maxConcurrent)
        => channels'[c].currentConcurrent <= channels'[c].maxConcurrent

\* a step that selects channel c (raises its count) finds it below its cap
SelectedBelowCap(c) ==
    channels'[c].currentConcurrent > channels[c].currentConcurrent
        => (channels[c].maxConcurrent <= 0
            \/ channels[c].currentConcurrent < channels[c].maxConcurrent)

\* the Selector does not wait: a request that is to select a backend can
\* always take its step (it gets a candidate or none)
SelectorNeverWaits ==
    \A r \in Reqs : req[r].pc = "idle" => ENABLED StartRequest(r)

\* the Selector's half of C3, which selectChannel does keep: every step that
\* leaves maxConcurrent unchanged keeps currentConcurrent <= maxConcurrent; a
\* selection only ever picks a channel that is uncapped or below its cap; and
\* the Selector never waits.
C3_CapKeptBySelection ==
    /\ [](SelectorNeverWaits)
    /\ [][\A c \in Channels : CapKept(c) /\ SelectedBelowCap(c)]_vars

\* the Selector refusing a channel: the preferred channel c1 is at its cap and untouched, and a
\* request was sent to the lower-priority channel c2 instead
C3_Witness ==
    /\ channels["c1"].enabled /\ channels["c1"].healthy
    /\ channels["c1"].maxConcurrent > 0
    /\ channels["c1"].currentConcurrent = channels["c1"].maxConcurrent
    /\ \E r \in Reqs : req[r].pc = "fetch" /\ req[r].backend = "c2"
    /\ \E r \in Reqs : req[r].pc = "fetch" /\ req[r].backend = "c1"

(***************************************************************************)
(* C4, C5: the retry loop                                                  *)
(***************************************************************************)
\* the upstream attempts request q has made
AttemptsMade(q) ==
    IF q.pc = "idle" THEN 0
    ELSE IF q.noBackend THEN q.attempt
    ELSE q.attempt + 1

\* proxyWithRetry of q is over and every attempt it made failed
AllAttemptsFailed(q) ==
    q.pc = "done" /\ q.lastOutcome # 200 /\ AttemptsMade(q) >= 1

\* C4 as claimed: at most MAX_RETRIES + 1 attempts; a 2xx attempt is returned
\* and is the last attempt; when every attempt failed the request returns the
\* last failing upstream status, or 504 when all attempts were transport errors.
C4_RetryEnvelope ==
    \A r \in Reqs :
        LET q == req[r]
        IN  /\ AttemptsMade(q) <= MAX_RETRIES + 1
            /\ q.lastOutcome = 200 => (q.result = 200 /\ q.pc # "fetch")
            /\ AllAttemptsFailed(q) =>
                 q.result = IF q.lastHttpFailure = NoOutcome THEN 504
                            ELSE q.lastHttpFailure

\* C4 (amended): at most MAX_RETRIES + 1 attempts; a 2xx attempt is returned
\* and is the last attempt; when every attempt failed the request returns 503
\* if no backend could be selected for a further attempt, else 504 if its last
\* attempt was a transport error, else the status of its last attempt.
C4_RetryEnvelopeByLastAttempt ==
    \A r \in Reqs :
        LET q == req[r]
        IN  /\ AttemptsMade(q) <= MAX_RETRIES + 1
            /\ q.lastOutcome = 200 => (q.result = 200 /\ q.pc # "fetch")
            /\ AllAttemptsFailed(q) =>
                 q.result = IF q.noBackend THEN 503
                            ELSE IF q.lastOutcome = TransportError THEN 504
                            ELSE q.lastOutcome

\* C4 witness: three attempts, a 401 followed by transport errors, ended 504
C4_Witness ==
    \E r \in Reqs :
        /\ req[r].pc = "done" /\ req[r].attempt = MAX_RETRIES /\ ~req[r].noBackend
        /\ req[r].lastHttpFailure = 401 /\ req[r].lastOutcome = TransportError
        /\ req[r].result = 504

\* C5: retry policy. A non-2xx status other than 401/403 ends the request at
\* once with that status; a 401, a 403 or a transport error ends the request
\* only when no attempt remains (else the next attempt runs, or no backend is
\* found); the request fails with 503 when the Selector yielded no backend at
\* the start of an attempt.
C5_RetryPolicy ==
    \A r \in Reqs :
        LET q == req[r]
        IN  /\ (q.lastOutcome \in HttpFailures \ {401, 403}) =>
                 (q.pc = "done" /\ q.result = q.lastOutcome /\ q.response = q.lastOutcome)
            /\ (q.lastOutcome \in {401, 403, TransportError} /\ q.pc = "done" /\ ~q.noBackend)
                 => q.attempt = MAX_RETRIES
            /\ q.noBackend => (q.pc = "done" /\ q.result = 503 /\ q.response = 503)

\* C5 witness: a 403 was retried and the Selector then found no backend
C5_Witness ==
    \E r \in Reqs :
        /\ req[r].lastOutcome = 403 /\ req[r].attempt = 1
        /\ req[r].noBackend /\ req[r].response = 503

(***************************************************************************)
(* C6: retry on a different backend (flat pool)                            *)
(***************************************************************************)
\* C6: a retry after a 401 or 403, picked from a pool of at least two
\* credentials, goes to another credential than the one that just failed.
C6_RetryOnDifferentBackend ==
    \A f \in FReqs :
        (/\ freq[f].pc = "fetch"
         /\ freq[f].lastOutcome \in {401, 403}
         /\ freq[f].poolSize >= 2)
            => freq[f].keyId # freq[f].prevKey

(***************************************************************************)
(* C7 - C10: the SSE relay                                                 *)
(***************************************************************************)
\* C7: after the client disconnects (close event) before upstream EOF, at most
\* one further read of the upstream body completes.
C7_ReaderStopsAfterClose ==
    \A r \in Reqs : req[r].readsAfterAbort <= 1

DoneFrameLast(q) ==
    /\ \A i \in 1..Len(q.frames) : q.frames[i] = "[DONE]" => i = Len(q.frames)
    /\ (q.relayEnd # "none" /\ ~q.aborted) =>
         (Len(q.frames) >= 1 /\ q.frames[Len(q.frames)] = "[DONE]" /\ q.ended)
    /\ q.relayEnd = "none" => \A i \in 1..Len(q.frames) : q.frames[i] # "[DONE]"
    /\ q.aborted => \A i \in 1..Len(q.frames) : q.frames[i] # "[DONE]"

C10_MidStreamError ==
    \A r \in Reqs :
        LET q == req[r]
            n == Len(q.frames)
        IN  q.relayEnd = "error" =>
              /\ q.pc = "done"
              /\ ~q.aborted =>
                   /\ n >= 2 /\ q.frames[n - 1] = "error" /\ q.frames[n] = "[DONE]"
                   /\ Cardinality({i \in 1..n : q.frames[i] = "error"}) = 1
                   /\ q.ended
              /\ q.aborted => \A i \in 1..n : q.frames[i] = "data"
              /\ q.nFailure = q.attempt + 1
              /\ q.nSuccess = 0

\* C10 witness: a line was relayed, then a read failed with the client connected
C10_Witness ==
    \E r \in Reqs :
        /\ req[r].relayEnd = "error" /\ ~req[r].aborted
        /\ req[r].frames = <<"data", "error", "[DONE]">>

(***************************************************************************)
(* C11: order of the relayed frames                                        *)
(***************************************************************************)
\* the chunks of the well-formed lines of a body, in the order of the lines:
\* a scan of the body, cur being the line read so far
RECURSIVE ScanLines(_, _, _)
ScanLines(body, cur, out) ==
    LET closed == IF Parses(cur) THEN Append(out, Trim(cur)) ELSE out
    IN  IF body = <<>> THEN closed
        ELSE IF Head(body) = "\n" THEN ScanLines(Tail(body), <<>>, closed)
        ELSE ScanLines(Tail(body), Append(cur, Head(body)), out)

ExpectedFrames(body) == ScanLines(body, <<>>, <<>>)

IsPrefix(p, q) == Len(p) <= Len(q) /\ SubSeq(q, 1, Len(p)) = p

\* C11: the frames written are, in order, one frame for each well-formed
\* non-empty line of the upstream body and none for any other line, whatever
\* the reads the body arrives in; a line that fails to parse stops nothing;
\* the unterminated last line is relayed before [DONE].
C11_FramesInLineOrder ==
    /\ sPc = "relay" => IsPrefix(sFrames, ExpectedFrames(sInput))
    /\ sPc = "done" => sFrames = Append(ExpectedFrames(sInput), DoneFrame)

\* C11 witness: a line, a malformed line and an unterminated line, the first
\* read ending inside a line
C11_Witness ==
    /\ sPc = "done"
    /\ sInput = <<"a", "\n", "x", "\n", "b">>
    /\ sFrames = << <<"a">>, <<"b">>, DoneFrame >>

(***************************************************************************)
(* C12: round-robin fairness                                               *)
(***************************************************************************)
\* the enabled and healthy credentials of the array, in array order
HealthyPool(creds) == IdsOf(SelectSeq(creds, LAMBDA k : k.enabled /\ k.healthy))

\* the last n entries of served name every credential of pool
LastCoverPool(served, pool) ==
    LET n == Len(pool)
    IN  (n >= 2 /\ Len(served) >= n) =>
            {served[i] : i \in (Len(served) - n + 1)..Len(served)}
                = {pool[i] : i \in 1..n}

\* C12: with a stable pool of n >= 2 enabled and healthy credentials and no
\* failures, any n consecutive getNextKey calls return every credential of
\* the pool exactly once, whatever the cursor loaded from the key file.
C12_RoundRobinFair ==
    /\ LastCoverPool(rrServed, HealthyPool(rrKeys))
    /\ LastCoverPool(rrServedMod, HealthyPool(rrKeys))

\* C12 witness: three healthy credentials, the three latest calls wrapped
\* around the end of the pool
C12_Witness ==
    /\ HealthyPool(rrKeys) = <<"k2", "k3", "k1">>
    /\ rrServed = <<"k3", "k1", "k2">>
    /\ rrServedMod = <<"k3", "k1", "k2">>
    /\ rrIndex = 1

(***************************************************************************)
(* C13: credential eligibility                                             *)
(***************************************************************************)
\* some credential of the store satisfies P
SomeCred(P(_)) == \E i \in 1..Len(storeKeys) : P(storeKeys[i])

\* C13: after any sequence of addKey, batchImport, removeKey, toggleKey,
\* clearAll, recordSuccess, recordFailure, health checks and resetHealth,
\* getNextKey returns an enabled and healthy credential when one exists,
\* otherwise an enabled one, and null exactly when none is enabled; it never
\* returns a disabled or a removed credential.
C13_EligibleReturn ==
    storeRet # NoReturn =>
        /\ (storeRet = None) <=> ~SomeCred(LAMBDA k : k.enabled)
        /\ storeRet # None =>
              /\ storeRet \in Present(storeKeys)
              /\ CredOf(storeKeys, storeRet).enabled
              /\ SomeCred(LAMBDA k : k.enabled /\ k.healthy)
                    => CredOf(storeKeys, storeRet).healthy

\* C13 witness: the fallback pool; the only enabled credential is unhealthy
\* and is returned while a disabled healthy one is passed over
C13_Witness ==
    /\ storeRet = "k2"
    /\ Len(storeKeys) = 2
    /\ ~CredOf(storeKeys, "k2").healthy /\ CredOf(storeKeys, "k2").enabled
    /\ CredOf(storeKeys, "k1").healthy /\ ~CredOf(storeKeys, "k1").enabled
    /\ storeRecords = MaxRecords

C15_HealthTransitions ==
    [][ \A id \in AdminIds :
            (id \in Present(storeKeys) /\ id \in Present(storeKeys)') =>
                LET old == CredOf(storeKeys, id)
                    new == CredOf(storeKeys, id)'
                IN  /\ (old.healthy /\ ~new.healthy) =>
                          \/ StoreRecordFailure(id)
                          \/ StoreHealthChecked(id, FALSE)
                    /\ (~old.healthy /\ new.healthy) =>
                          \/ StoreRecordSuccess(id)
                          \/ StoreHealthChecked(id, TRUE)
                          \/ StoreResetHealth
      ]_vars

\* C15 witness: with no request recorded, a failed health check has marked
\* the first credential and a toggle has disabled the second, still healthy
C15_Witness ==
    /\ storeRecords = 0
    /\ Len(storeKeys) = 2
    /\ ~storeKeys[1].healthy /\ storeKeys[1].lastError
    /\ storeKeys[2].healthy /\ ~storeKeys[2].enabled /\ ~storeKeys[2].lastError

(***************************************************************************)
(* C16: channel quarantine                                                 *)
(***************************************************************************)
\* C16: in every reachable state, every channel with failedRequests > 5 and
\* failedRequests / totalRequests > 0.8 is quarantined (healthy = false),
\* after any sequence of recordSuccess, recordFailure, health checks and
\* resetHealth.
C16_QuarantineInvariant ==
    \A c \in Channels :
        (/\ qChannels[c].failedRequests > 5
         /\ 5 * qChannels[c].failedRequests > 4 * qChannels[c].totalRequests)
            => ~qChannels[c].healthy

(***************************************************************************)
(* C19: token validation order                                             *)
(***************************************************************************)
\* the checks of the claim that token id fails at that instant, in the
\* claim's order
FailedChecks(tok, at) ==
    SelectSeq(<<"Token disabled", "Token expired", "Token quota exceeded">>,
              LAMBDA e :
                  \/ e = "Token disabled" /\ ~tok.enabled
                  \/ e = "Token expired" /\ tok.expiresAt # 0 /\ tok.expiresAt < at
                  \/ e = "Token quota exceeded" /\ tok.quotaLimit # 0
                                               /\ ~(tok.quotaUsed < tok.quotaLimit))

\* C19: validateToken checks, in this order, that the token string exists in
\* the registry, that the token is enabled, not expired and not over quota;
\* the result is invalid with the error of the first failing check and valid
\* with the token otherwise; validateToken changes no token state.
C19_ValidationOrder ==
    [][ \A plain \in Plains :
            TValidateToken(plain) =>
                /\ tTokens' = tTokens
                /\ LET known == \E id \in TokenIds :
                                    tTokens[id].present /\ PlainOf[id] = plain
                       id == Lookup(tTokens, plain)
                   IN  IF ~known
                       THEN ~tResult'.valid /\ tResult'.error \in {"Missing token", "Invalid token"}
                       ELSE LET failed == FailedChecks(tTokens[id], tNow)
                            IN  IF Len(failed) = 0
                                THEN tResult'.valid /\ tResult'.token = id
                                ELSE ~tResult'.valid /\ tResult'.error = failed[1]
      ]_vars

\* C19 witness: a token both expired and over quota was answered "expired"
C19_Witness ==
    /\ tResult.plain = "sk-t1"
    /\ tResult.error = "Token expired"
    /\ tTokens["t1"].quotaLimit # 0
    /\ tTokens["t1"].quotaUsed >= tTokens["t1"].quotaLimit

(***************************************************************************)
(* C20: quota reset                                                        *)
(***************************************************************************)
\* C20: a token whose quotaResetAt has passed has its quota reset (quotaUsed
\* 0, quotaResetAt the first of the next month) on the first access after
\* that instant, so a token that was rejected as over quota validates again
\* on its first use after quotaResetAt; resetting twice is resetting once.
C20_QuotaResetOnAccess ==
    /\ \A id \in TokenIds :
          (tTokens[id].present /\ tResult.plain = PlainOf[id] /\ tResult.at = tNow) =>
              /\ tTokens[id].quotaResetAt > tNow
              /\ tResult.error # "Token quota exceeded" \/ tTokens[id].quotaUsed > 0
    /\ tPc = "run" =>
          CheckQuotaReset(CheckQuotaReset(tTokens, tNow), tNow) = CheckQuotaReset(tTokens, tNow)

(***************************************************************************)
(* C17: middleware order                                                   *)
(***************************************************************************)
\* the gate that answered a rejected request: the last one that ran
AnsweredBy(rq) == rq.ran[Len(rq.ran)]

\* the request ran the gates in the order access control, rate limit, auth,
\* up to the first that rejected it, and reached the route handler (where the
\* backend is selected) only when none did
RanInOrder(rq) ==
    /\ Len(rq.ran) >= 1
    /\ IsPrefix(rq.ran, <<"access", "rate", "auth">>)
    /\ rq.handled <=> (rq.status = 0)
    /\ rq.handled => Len(rq.ran) = 3
    /\ ~IsAllowed(gPolicy, rq.ip) => (rq.ran = <<"access">> /\ rq.status = 403)

\* C17 as claimed: the gates run in the order access control, rate limit,
\* auth; the first gate that rejects answers (403 access_denied, 429
\* rate_limit_error with Retry-After, 401 auth_error, in this order of the
\* gates) and nothing later runs; a request rejected by access control
\* consumes no rate-limit slot and no rejected request reaches the handler.
C17_MiddlewareOrder ==
    [][ gLog' # gLog =>
            LET rq == gLog'[Len(gLog')]
            IN  /\ RanInOrder(rq)
                /\ rq.status # 0 =>
                      CASE AnsweredBy(rq) = "access" ->
                               /\ rq.status = 403 /\ rq.type = "access_denied"
                               /\ gWindows' = gWindows
                        [] AnsweredBy(rq) = "rate" ->
                               /\ rq.status = 429 /\ rq.type = "rate_limit_error"
                               /\ rq.retryAfter > 0
                        [] AnsweredBy(rq) = "auth" ->
                               rq.status = 401 /\ rq.type = "auth_error"
      ]_vars

\* C17 (amended): as above, but the auth gate answers 401 auth_error, or 403
\* access_denied when the token is valid and its allowedIPs list does not
\* hold the client's address.
C17_MiddlewareOrderWithTokenIPs ==
    [][ gLog' # gLog =>
            LET rq == gLog'[Len(gLog')]
                valid == ValidateToken(tTokens, rq.header, tNow)
            IN  /\ RanInOrder(rq)
                /\ rq.status # 0 =>
                      CASE AnsweredBy(rq) = "access" ->
                               /\ rq.status = 403 /\ rq.type = "access_denied"
                               /\ gWindows' = gWindows
                        [] AnsweredBy(rq) = "rate" ->
                               /\ rq.status = 429 /\ rq.type = "rate_limit_error"
                               /\ rq.retryAfter > 0
                        [] AnsweredBy(rq) = "auth" ->
                               IF /\ rq.header # NoHeader
                                  /\ valid.valid
                                  /\ rq.ip \notin tTokens[valid.token].allowedIPs
                               THEN rq.status = 403 /\ rq.type = "access_denied"
                               ELSE rq.status = 401 /\ rq.type = "auth_error"
      ]_vars

\* C17 witness: one client was turned away by the auth gate twice, first
\* without a token (401) and then with a token bound to another address
\* (403), and then by the rate limit gate (429), its two slots being used up
C17_Witness ==
    /\ Len(gLog) = 3
    /\ gLog[1].status = 401 /\ gLog[1].ran = <<"access", "rate", "auth">>
    /\ gLog[2].status = 403 /\ gLog[2].ran = <<"access", "rate", "auth">>
    /\ gLog[3].status = 429 /\ gLog[3].ran = <<"access", "rate">>
    /\ ~gLog[3].handled

(***************************************************************************)
(* C18: per-token rate limiting                                            *)
(***************************************************************************)
\* the requests of the log that were authenticated with this token
AuthenticatedWith(id) == SelectSeq(gLog, LAMBDA rq : rq.handled /\ rq.tokenObj = id)

\* C18: a request authenticated with an auth token is counted against the
\* per-token window keyed by the token's id, so requests bearing one token
\* beyond the per-token cap within one window are rejected with 429 and
\* limitType token, independently of the global and per-IP windows.
C18_PerTokenLimit ==
    \A id \in TokenIds :
        /\ Len(AuthenticatedWith(id)) <= MaxRequests
        /\ Len(AuthenticatedWith(id)) > 0 =>
              /\ gWindows.token[id].present
              /\ Len(gWindows.token[id].requests) = Len(AuthenticatedWith(id))

(***************************************************************************)
(* C21: model scoping                                                      *)
(***************************************************************************)
\* the entry matches the model as a glob: a star stands for any run of
\* characters, every other character for itself
RECURSIVE GlobMatch(_, _)
GlobMatch(m, model) ==
    IF m = <<>> THEN model = <<>>
    ELSE IF Head(m) = "*"
         THEN GlobMatch(Tail(m), model)
                \/ (model # <<>> /\ GlobMatch(m, Tail(model)))
         ELSE /\ model # <<>>
              /\ Head(m) = Head(model)
              /\ GlobMatch(Tail(m), Tail(model))

\* the attached token has a non-empty list and no entry matches the model
OutOfScope(rq) ==
    /\ rq.hasToken
    /\ rq.model # <<>>
    /\ rq.allowedModels # {}
    /\ \A m \in rq.allowedModels : ~GlobMatch(m, rq.model)

\* C21: a request whose attached token has a non-empty allowed-models list
\* that the requested model matches by no entry (exact, or *-glob) is
\* rejected with 403 permission_error and no backend is selected for it, on
\* chat completions, completions and embeddings.
C21_ModelScoping ==
    OutOfScope(scopeReq) =>
        /\ scopeReq.status = 403
        /\ scopeReq.type = "permission_error"
        /\ ~scopeReq.proxied

\* the same on chat completions alone, for entries without a dot
C21_ChatScopingWithoutDots ==
    (/\ OutOfScope(scopeReq)
     /\ scopeReq.endpoint = "/v1/chat/completions"
     /\ \A m \in scopeReq.allowedModels : \A i \in 1..Len(m) : m[i] # ".") =>
        /\ scopeReq.status = 403
        /\ scopeReq.type = "permission_error"
        /\ ~scopeReq.proxied

(***************************************************************************)
(* C22: access-control modes                                               *)
(***************************************************************************)
\* bit i (1 the highest) of a 32-bit value given by its four bytes
BitOf(octets, i) == (octets[((i - 1) \div 8) + 1] \div (2 ^ (7 - ((i - 1) % 8)))) % 2

\* the high n bits of two IPv4 addresses are equal
SameHighBits(x, y, n) == \A i \in 1..n : BitOf(x, i) = BitOf(y, i)

\* the address a string denotes: the dotted quad of a mapped address, the
\* IPv4 loopback for ::1
Denoted(addr) ==
    CASE addr.form = "mapped" -> V4(addr.octets)
      [] addr.form = "loopback6" -> V4(<<127, 0, 0, 1>>)
      [] OTHER -> addr

\* the address matches the entry: a CIDR entry by its high bits, a literal
\* entry by naming the same address
MatchesEntry(addr, entry) ==
    IF entry.kind = "cidr"
    THEN /\ Denoted(addr).form = "v4"
         /\ entry.addr.form = "v4"
         /\ SameHighBits(Denoted(addr).octets, entry.addr.octets, entry.bits)
    ELSE Denoted(addr) = Denoted(entry.addr)

\* C22: isAllowed(ip) is true for every ip when the mode is disabled, when
\* it is whitelist with an empty whitelist and when it is blacklist with an
\* empty blacklist; in whitelist mode with a non-empty list it is true iff
\* the normalized ip matches some entry; in blacklist mode it is false iff
\* the normalized ip matches some entry.
C22_AccessModes ==
    CASE acPolicy.mode = "disabled" -> acResult
      [] acPolicy.mode = "whitelist" ->
            IF acPolicy.whitelist = {} THEN acResult
            ELSE acResult <=> \E e \in acPolicy.whitelist : MatchesEntry(acIp, e)
      [] acPolicy.mode = "blacklist" ->
            IF acPolicy.blacklist = {} THEN acResult
            ELSE ~acResult <=> \E e \in acPolicy.blacklist : MatchesEntry(acIp, e)

\* C22 witness: in blacklist mode the address ::ffff:10.0.0.1 is refused
\* through the literal entry 10.0.0.1, the whitelist not being consulted
C22_Witness ==
    /\ acPolicy.mode = "blacklist"
    /\ acPolicy.blacklist = {Literal(V4(<<10, 0, 0, 1>>)), Literal(Loopback6)}
    /\ acPolicy.whitelist = {Literal(Loopback6)}
    /\ acIp = Mapped(<<10, 0, 0, 1>>)
    /\ ~acResult

(***************************************************************************)
(* C23: CIDR correctness                                                   *)
(***************************************************************************)
\* C23: for every IPv4 address x and every entry a.b.c.d/n with 0 <= n <= 32
\* that is the only whitelist entry, isAllowed(x) in whitelist mode is true
\* iff the high n bits of x equal the high n bits of a.b.c.d, on 32-bit
\* values.
C23_CidrCorrect ==
    (/\ acPolicy.mode = "whitelist"
     /\ \E e \in acPolicy.whitelist : e.kind = "cidr" /\ acPolicy.whitelist = {e}
     /\ acIp.form = "v4") =>
        LET e == CHOOSE e \in acPolicy.whitelist : TRUE
        IN  acResult <=> SameHighBits(acIp.octets, e.addr.octets, e.bits)

\* C23 witness: 255.255.85.0 is inside 255.255.0.0/17, the top bit being set
\* and the addresses differing from bit 18 on
C23_Witness ==
    /\ acPolicy.mode = "whitelist"
    /\ acPolicy.whitelist = {Cidr(V4(<<255, 255, 0, 0>>), 17)}
    /\ acIp = V4(<<255, 255, 85, 0>>)
    /\ acResult

(***************************************************************************)
(* C24: stream default                                                     *)
(***************************************************************************)
\* C24: transformChatRequest and transformCompletionsRequest set stream to
\* false when the request has no stream field, so such a request is served
\* as a non-streaming JSON response; stream: true yields a streaming
\* response and stream: false a non-streaming one.
C24_StreamDefault ==
    xOp \in {"chat", "completions"} =>
        /\ ~Has(xIn, "stream") => (xOut.ollamaReq.stream = FALSE /\ ~xOut.isStream)
        /\ Has(xIn, "stream") => (xOut.isStream <=> xIn.stream)

\* a request that carries a stream field is served as the field says
C24_ExplicitStream ==
    (xOp \in {"chat", "completions"} /\ Has(xIn, "stream")) => (xOut.isStream <=> xIn.stream)

(***************************************************************************)
(* C25: stream token accounting                                            *)
(***************************************************************************)
\* the upstream chunks of the sequence that carry content
RECURSIVE ContentChunks(_)
ContentChunks(chunks) ==
    IF chunks = <<>> THEN 0
    ELSE ContentChunks(SubSeq(chunks, 1, Len(chunks) - 1))
         + (IF Has(chunks[Len(chunks)], "message")
               /\ Has(chunks[Len(chunks)].message, "content")
               /\ chunks[Len(chunks)].message.content # "" THEN 1 ELSE 0)

\* the stream is complete and upstream gave no token count
NoCountsStream ==
    /\ xOp = "stream"
    /\ xIn # <<>>
    /\ xIn[Len(xIn)].done
    /\ ~Has(xIn[Len(xIn)], "prompt_eval_count")
    /\ ~Has(xIn[Len(xIn)], "eval_count")

\* the usage the claim gives for the final chunk
CountedUsage ==
    [prompt_tokens |-> 0, completion_tokens |-> ContentChunks(xIn),
     total_tokens |-> ContentChunks(xIn)]

\* C25: for any stream in which upstream provides neither prompt_eval_count
\* nor eval_count, the usage of the final chunk has prompt_tokens = 0,
\* completion_tokens = the number of upstream chunks with non-empty
\* message.content relayed in the stream, and total_tokens = their sum.
C25_StreamTokens ==
    NoCountsStream => xOut.chunks[Len(xOut.chunks)].usage = CountedUsage

\* with transformStreamChunk of metrics.js the usage is the one claimed
C25_StreamTokensLaterCopy ==
    (NoCountsStream /\ xCopy = "metrics.js") =>
        xOut.chunks[Len(xOut.chunks)].usage = CountedUsage

(***************************************************************************)
(* C26: embeddings robustness                                              *)
(***************************************************************************)
\* the data the claim gives for the upstream response
ClaimedData(ollamaRes, data) ==
    IF Has(ollamaRes, "embeddings") /\ ollamaRes.embeddings # <<>>
    THEN /\ Len(data) = Len(ollamaRes.embeddings)
         /\ \A i \in 1..Len(data) :
               data[i] = [index |-> i - 1, embedding |-> ollamaRes.embeddings[i]]
    ELSE IF ~Has(ollamaRes, "embedding") THEN data = <<>>
    ELSE ~Has(ollamaRes, "embeddings") =>
            data = <<[index |-> 0, embedding |-> ollamaRes.embedding]>>

\* C26: transformEmbeddingsResponse yields data = [] when upstream has
\* neither embeddings nor embedding and when embeddings is an empty array;
\* exactly one item whose embedding is v when upstream has embedding: v; and
\* one item per element, in order with index 0..k-1, when upstream has a
\* non-empty embeddings array.
C26_EmbeddingsData == xOp = "embeddings" => ClaimedData(xIn, xOut.data)

\* with transformEmbeddingsResponse of metrics.js the data is the one claimed
C26_EmbeddingsDataLaterCopy ==
    (xOp = "embeddings" /\ xCopy = "metrics.js") => ClaimedData(xIn, xOut.data)

(***************************************************************************)
(* C27: finish reason                                                      *)
(***************************************************************************)
\* the finish reason the claim gives for an upstream response or final chunk
ClaimedFinishReason(ollama) ==
    IF Has(ollama, "message") /\ Has(ollama.message, "tool_calls")
       /\ Len(ollama.message.tool_calls) >= 1 THEN "tool_calls"
    ELSE IF Has(ollama, "done_reason") /\ ollama.done_reason = "length" THEN "length"
    ELSE "stop"

\* the claim on the chunks of a stream
StreamFinishReasons ==
    xOp = "stream" =>
        \A i \in 1..Len(xIn) :
            xOut.chunks[i].finish_reason
                = IF xIn[i].done THEN ClaimedFinishReason(xIn[i]) ELSE "null"

\* C27: the finish_reason of a non-streaming response, and of a terminal
\* stream chunk, is tool_calls whenever the upstream message carries at
\* least one tool call, regardless of done_reason; otherwise it is length
\* for done_reason length and stop for stop, load, unload, an absent or any
\* other done_reason; every non-terminal stream chunk has finish_reason null.
C27_FinishReason ==
    /\ xOp = "response" => xOut.finish_reason = ClaimedFinishReason(xIn)
    /\ StreamFinishReasons

\* the claim holds of the chunks of a stream, and of a non-streaming
\* response whose message has no empty tool_calls array
C27_FinishReasonWithoutEmptyArray ==
    /\ (xOp = "response" /\ xOut.finish_reason # ClaimedFinishReason(xIn)) =>
            (Has(xIn.message, "tool_calls") /\ xIn.message.tool_calls = <<>>)
    /\ StreamFinishReasons

(***************************************************************************)
(* C28: finish-of-stream bookkeeping                                       *)
(***************************************************************************)
\* the relay of the request ended at upstream EOF, the done line seen or the
\* client still connected
EndedNormally(q) == q.relayEnd = "eof" /\ (q.streamSuccess \/ ~q.aborted)

\* C28: when a stream relay ends normally (upstream EOF) and either the done
\* line was seen or the client did not abort, recordSuccess is called exactly
\* once on the backend and, if a token object is attached to the request,
\* recordUsage is called exactly once for that token.
C28_StreamBookkeeping ==
    \A r \in Reqs :
        EndedNormally(req[r]) =>
            /\ req[r].nSuccess = 1
            /\ HasToken(r) => req[r].nUsage = 1

\* recordSuccess is called once; recordUsage is called once when a token
\* object is attached and a done line gave the usage, and not otherwise
C28_UsageOnlyWhenCaptured ==
    \A r \in Reqs :
        EndedNormally(req[r]) =>
            /\ req[r].nSuccess = 1
            /\ req[r].nUsage = IF HasToken(r) /\ req[r].finalUsage THEN 1 ELSE 0

(***************************************************************************)
(* C29: outcome recording                                                  *)
(***************************************************************************)
\* the upstream attempts of request q that have failed
FailedAttempts(q) ==
    IF q.pc = "idle" THEN 0
    ELSE IF q.pc = "done" /\ q.result # 200 /\ ~q.noBackend THEN q.attempt + 1
    ELSE q.attempt

\* every failed attempt is recorded once as a failure, a failed read of the
\* stream body once more
FailuresRecordedOnce(q) ==
    q.nFailure = FailedAttempts(q) + (IF q.relayEnd = "error" THEN 1 ELSE 0)

\* a streaming request is recorded as a success once, at the end of the
\* relay at upstream EOF, and not before
StreamRecordedOnce(q) ==
    q.isStream =>
        /\ q.pc # "done" => q.nSuccess = 0
        /\ (q.pc = "done" /\ q.relayEnd = "eof" /\ ~q.aborted) => q.nSuccess = 1

\* C29: each proxied request that ends successfully is recorded exactly once
\* on the backend that served it (for non-streaming at response receipt, for
\* streaming at relay end, never before), and each failed upstream attempt is
\* recorded exactly once as a failure on the backend that was tried.
C29_OutcomeRecording ==
    \A r \in Reqs :
        LET q == req[r]
        IN  /\ FailuresRecordedOnce(q)
            /\ StreamRecordedOnce(q)
            /\ ~q.isStream =>
                  /\ q.pc \in {"idle", "fetch"} => q.nSuccess = 0
                  /\ q.pc = "body" => q.nSuccess = 1
                  /\ (q.pc = "done" /\ q.response = 200) => q.nSuccess = 1

\* failures and streams are recorded as claimed; a non-streaming request is
\* recorded at response receipt and once more when its body is parsed
C29_RecordedTwiceWithoutStream ==
    \A r \in Reqs :
        LET q == req[r]
        IN  /\ FailuresRecordedOnce(q)
            /\ StreamRecordedOnce(q)
            /\ ~q.isStream =>
                  /\ q.pc \in {"idle", "fetch"} => q.nSuccess = 0
                  /\ q.pc = "body" => q.nSuccess = 1
                  /\ (q.pc = "done" /\ q.response = 200) => q.nSuccess = 2

(***************************************************************************)
(* C30: round-robin bounds                                                 *)
(***************************************************************************)
\* the call used a slot of the pool, returned the credential in it and left
\* the cursor one slot on, inside the pool
IndexedWithinBounds(pool) ==
    /\ \E slot \in 0..(Len(pool) - 1) :
          /\ storeRet' = pool[slot + 1]
          /\ storeIndex' = (slot + 1) % Len(pool)
    /\ storeIndex' \in 0..(Len(pool) - 1)

PermitsModel(ch, model, Match(_, _)) ==
    \/ ch.models = {}
    \/ \E m \in ch.models : m = model \/ Match(m, model)
    \/ model \in DOMAIN ch.modelMapping

\* the channels that pass the filter of the claim
Passing(chs, model, Match(_, _)) ==
    {c \in Channels :
        /\ chs[c].enabled
        /\ chs[c].healthy
        /\ chs[c].maxConcurrent > 0 => chs[c].currentConcurrent < chs[c].maxConcurrent
        /\ PermitsModel(chs[c], model, Match)}

\* the attempt the step has added
NewAttempt == selReq'.attempts[Len(selReq'.attempts)]

\* the selection of the step is the one claimed, for this way of matching
SelectedAsClaimed(Match(_, _)) ==
    LET passing == Passing(selChannels, selReq.model, Match)
        got == NewAttempt
    IN  /\ got.channel = None <=> passing = {}
        /\ got.channel = None => got.source = "keystore"
        /\ got.channel # None =>
              /\ got.channel \in passing
              /\ \A d \in passing :
                    selChannels[d].priority <= selChannels[got.channel].priority

\* C31: selectChannel(model) returns only a channel that is enabled, healthy,
\* below its positive concurrency cap (or uncapped) and model-permitted
\* (empty model list, a list entry matching exactly or by *-glob, or the
\* model being a key of modelMapping), and whose priority is the maximum
\* among all channels passing that filter; it returns nothing iff no channel
\* passes the filter, and backend resolution then falls back to the flat
\* credential pool.
C31_ChannelSelection == [][SelAttempt => SelectedAsClaimed(GlobMatch)]_vars

\* the same with list entries matched the way the code matches them, a dot
\* in an entry with a star standing for any character
C31_SelectionByRegex == [][SelAttempt => SelectedAsClaimed(RegexTest)]_vars

(***************************************************************************)
(* C32: model remap                                                        *)
(***************************************************************************)
\* the body the claim has sent upstream through channel ch
ClaimedBody(ch, body, model) ==
    IF model \in DOMAIN ch.modelMapping
    THEN [body EXCEPT !.model = ch.modelMapping[model]]
    ELSE body

\* C32: when the selected channel's modelMapping defines the requested
\* model, the body sent upstream carries the mapped name in model and is
\* otherwise identical to the translated request; when it does not, the body
\* is forwarded unchanged; the caller's request body is never mutated, so
\* every retry attempt remaps from the originally requested model name.
C32_ModelRemap ==
    [][(SelAttempt /\ NewAttempt.channel # None) =>
          /\ NewAttempt.sent
                = ClaimedBody(selChannels[NewAttempt.channel],
                              [model |-> selReq.model, stream |-> FALSE], selReq.model)
          /\ selReq'.body = selReq.body
          /\ selReq.body = [model |-> selReq.model, stream |-> FALSE]]_vars

\* C32 witness: the first attempt went through c1, which maps b to c, and
\* the second through c2, which has no mapping: the first body carries c,
\* the second b again
C32_Witness ==
    /\ Len(selReq.attempts) = 2
    /\ selReq.attempts[1].channel = "c1"
    /\ selReq.attempts[1].sent.model = <<"c">>
    /\ selReq.attempts[2].channel = "c2"
    /\ selReq.attempts[2].sent.model = <<"b">>
    /\ selReq.body.model = <<"b">>

(***************************************************************************)
(* C33: the consume step                                                   *)
(***************************************************************************)
\* the timestamps stored for the key
StoredTimestamps(k) == IF windows[k].present THEN windows[k].requests ELSE <<>>

\* consume(k) has acted as claimed on the timestamps stored for k
ConsumedAsClaimed(k) ==
    LET kept == FilterNewer(StoredTimestamps(k), now - WindowMs)
    IN  IF Len(kept) >= MaxRequests
        THEN /\ ~rlResult'.allowed
             /\ rlResult'.retryAfter = CeilDiv(kept[1] + WindowMs - now, 1000)
             /\ windows'[k].requests = kept
        ELSE /\ rlResult'.allowed
             /\ rlResult'.remaining = MaxRequests - (Len(kept) + 1)
             /\ windows'[k].requests = Append(kept, now)

\* C33: consume(key) first drops that key's timestamps <= now - windowMs; if
\* at least maxRequests timestamps remain it denies with retryAfter =
\* ceil((oldest remaining + windowMs - now)/1000) and stores no new
\* timestamp; otherwise it appends now and permits with remaining =
\* maxRequests - new size.
C33_ConsumeStep == [][\A k \in RLKeys : Consume(k) => ConsumedAsClaimed(k)]_vars

\* the step is the one claimed whenever the entry of the key was created
\* within the last windowMs, or holds only timestamps that are due to go
C33_ConsumeStepInFreshWindow ==
    [][\A k \in RLKeys :
          (/\ Consume(k)
           /\ \/ ~windows[k].present
              \/ windows[k].windowStart >= now - WindowMs
              \/ FilterNewer(windows[k].requests, now - WindowMs) = <<>>)
                => ConsumedAsClaimed(k)]_vars

(***************************************************************************)
(* C34: the order of the three windows                                     *)
(***************************************************************************)
\* the windows a call consults, in the claimed order
Consulted(tokenId) ==
    SelectSeq(<<"global", "ip", "token">>,
              LAMBDA w : CASE w = "global" -> ckConfig.globalEnabled
                           [] w = "ip" -> ckConfig.ipEnabled
                           [] w = "token" -> ckConfig.tokenEnabled /\ tokenId # None)

\* the entry of window w for the call, in a set of windows
EntryOf(wins, w, ip, tokenId) ==
    CASE w = "global" -> wins.global
      [] w = "ip" -> wins.ip[ip]
      [] w = "token" -> wins.token[tokenId]

\* every entry but those of the listed windows of the call is as it was
OthersUntouched(ws, ip, tokenId) ==
    /\ "global" \notin ws => ckWindows'.global = ckWindows.global
    /\ \A i \in IPs : ("ip" \notin ws \/ i # ip) => ckWindows'.ip[i] = ckWindows.ip[i]
    /\ \A id \in TokenIds :
          ("token" \notin ws \/ id # tokenId) => ckWindows'.token[id] = ckWindows.token[id]

\* check(ip, tokenId) has acted as claimed
CheckedInOrder(ip, tokenId) ==
    LET order == Consulted(tokenId)
        Verdict(w) == ConsumeAt(EntryOf(ckWindows, w, ip, tokenId), ckNow)
        denying == {j \in 1..Len(order) : ~Verdict(order[j]).allowed}
        first == IF denying = {} THEN 0
                 ELSE CHOOSE j \in denying : \A l \in denying : j <= l
        reached == IF first = 0 THEN 1..Len(order) ELSE 1..first
    IN  /\ ckCall'.allowed = (first = 0)
        /\ first # 0 => /\ ckCall'.limitType = order[first]
                        /\ ckCall'.retryAfter = Verdict(order[first]).retryAfter
        /\ \A j \in reached :
              EntryOf(ckWindows', order[j], ip, tokenId) = Verdict(order[j]).entry
        /\ \A j \in reached :
              j # first =>
                 LET reqs == EntryOf(ckWindows', order[j], ip, tokenId).requests
                 IN  reqs # <<>> /\ reqs[Len(reqs)] = ckNow
        /\ OthersUntouched({order[j] : j \in reached}, ip, tokenId)

\* C34: RateLimiter.check consults the enabled windows in the order global,
\* ip, token; the first window that denies determines the result and its
\* limitType, later windows are not consumed, and the slots the same call
\* took in earlier windows stay consumed.
C34_CheckOrder ==
    [][\A ip \in IPs, tokenId \in CheckTokens :
          CkCheck(ip, tokenId) => CheckedInOrder(ip, tokenId)]_vars

\* a call the ip window has denied after the global window took its slot,
\* with the token window of the caller left alone
C34_Witness ==
    /\ ckConfig.globalEnabled /\ ckConfig.ipEnabled /\ ckConfig.tokenEnabled
    /\ ckCall.tokenId = "t1" /\ ckCall.at = ckNow
    /\ ~ckCall.allowed /\ ckCall.limitType = "ip"
    /\ ckWindows.global.requests # <<>>
    /\ ckWindows.global.requests[Len(ckWindows.global.requests)] = ckNow
    /\ \A n \in 1..Len(ckWindows.token["t1"].requests) :
          ckWindows.token["t1"].requests[n] # ckNow

(***************************************************************************)
(* C35: explicit upstream counters                                         *)
(***************************************************************************)
\* the stream has had its terminal chunk
StreamComplete == xOp = "stream" /\ xIn # <<>> /\ xIn[Len(xIn)].done

\* the usage of the terminal chunk sent to the client
FinalUsage == xOut.chunks[Len(xOut.chunks)].usage

\* C35: when the terminal stream chunk carries upstream counters, usage uses
\* them verbatim (prompt_tokens = prompt_eval_count, completion_tokens =
\* eval_count), also when a supplied counter is 0; the chunk counter of the
\* stream is used for completion_tokens only when eval_count is absent; and
\* total_tokens is always prompt_tokens + completion_tokens.
C35_ExplicitCounters ==
    StreamComplete =>
        LET final == xIn[Len(xIn)]
        IN  /\ Has(final, "prompt_eval_count") =>
                  FinalUsage.prompt_tokens = final.prompt_eval_count
            /\ FinalUsage.completion_tokens =
                  (IF Has(final, "eval_count") THEN final.eval_count
                   ELSE ContentChunks(xIn))
            /\ FinalUsage.total_tokens =
                  FinalUsage.prompt_tokens + FinalUsage.completion_tokens

\* a supplied prompt_eval_count and a supplied eval_count other than 0 are
\* used verbatim by both copies, and the total is the sum
C35_NonZeroCounters ==
    StreamComplete =>
        LET final == xIn[Len(xIn)]
        IN  /\ Has(final, "prompt_eval_count") =>
                  FinalUsage.prompt_tokens = final.prompt_eval_count
            /\ (Has(final, "eval_count") /\ final.eval_count # 0) =>
                  FinalUsage.completion_tokens = final.eval_count
            /\ FinalUsage.total_tokens =
                  FinalUsage.prompt_tokens + FinalUsage.completion_tokens

\* with transformStreamChunk of metrics.js the claim fails only for a
\* supplied eval_count of 0
C35_LaterCopyButZero ==
    (StreamComplete /\ xCopy = "metrics.js"
        /\ ~(Has(xIn[Len(xIn)], "eval_count") /\ xIn[Len(xIn)].eval_count = 0)) =>
        FinalUsage.completion_tokens =
            (IF Has(xIn[Len(xIn)], "eval_count") THEN xIn[Len(xIn)].eval_count
             ELSE ContentChunks(xIn))

(***************************************************************************)
(* C36: credential uniqueness                                              *)
(***************************************************************************)
\* no two stored credentials share (key, baseUrl), and no two share an id
UniqueCredentials(creds) ==
    \A i \in 1..Len(creds), j \in 1..Len(creds) :
        i # j => /\ ~(creds[i].key = creds[j].key /\ creds[i].baseUrl = creds[j].baseUrl)
                 /\ creds[i].id # creds[j].id

\* the (key, baseUrl) a line parses to
PairOf(line, defaultBaseUrl) ==
    LET keyObj == ParseKeyString(line, defaultBaseUrl, 0)
    IN  <<keyObj.key, keyObj.baseUrl>>

StoredPairs(creds) == {<<creds[i].key, creds[i].baseUrl>> : i \in 1..Len(creds)}

\* a call over these lines has added one credential for each pair that was
\* not stored, at its first line, and has reported every other line as a
\* duplicate
DuplicatesRefused(lines, defaultBaseUrl) ==
    LET isNew(i) == /\ PairOf(lines[i], defaultBaseUrl) \notin StoredPairs(ksKeys)
                    /\ \A j \in 1..(i - 1) :
                          PairOf(lines[j], defaultBaseUrl) # PairOf(lines[i], defaultBaseUrl)
        new == SelectSeq([i \in 1..Len(lines) |-> i], isNew)
    IN  /\ Len(ksKeys') = Len(ksKeys) + Len(new)
        /\ SubSeq(ksKeys', 1, Len(ksKeys)) = ksKeys
        /\ \A n \in 1..Len(new) :
              <<ksKeys'[Len(ksKeys) + n].key, ksKeys'[Len(ksKeys) + n].baseUrl>>
                 = PairOf(lines[new[n]], defaultBaseUrl)
        /\ Len(ksRet'.added) = Len(new)
        /\ Len(ksRet'.duplicates) = Len(lines) - Len(new)

\* the lines the call just made had to consider: addKey its one argument
\* unless it is blank, batchImport the lines it keeps of its text
CalledWith ==
    IF ksRet'.op = "batchImport" THEN ImportedLines(ksRet'.text)
    ELSE SelectSeq(ksRet'.text, LAMBDA l : Trim(l) # <<>>)

\* C36: after any sequence of addKey, batchImport, removeKey, toggleKey and
\* clearAll from an empty store, no two stored credentials have the same
\* (key, baseUrl) and no two the same id; an addKey call or batchImport line
\* whose parsed (key, baseUrl) is already stored, also when it was added
\* earlier in the same batch, adds nothing and is reported as a duplicate.
C36_UniqueCredentials ==
    /\ []UniqueCredentials(ksKeys)
    /\ [][ksRet'.op \in {"addKey", "batchImport"} =>
             DuplicatesRefused(CalledWith, ksRet'.defaultBaseUrl)]_vars

\* a batch whose two lines, written differently, name one credential: one
\* was added and the other reported
C36_Witness ==
    /\ ksRet.op = "batchImport"
    /\ Len(ksRet.added) = 1 /\ Len(ksRet.duplicates) = 1
    /\ Len(ksKeys) = 1
    /\ ksRet.duplicates[1] = ksRet.added[1]

(***************************************************************************)
(* C37: persistence write-behind                                           *)
(***************************************************************************)
\* a debounced save arms the timer a full delay ahead, whatever was armed,
\* and the write the timer starts holds the keys as they are then
Debounced ==
    /\ [][WbSave => wbSaveTimer' = wbNow + SaveDelay]_vars
    /\ [][WbTimerFires => (wbKeys \in wbWriting' /\ wbNow >= wbSaveTimer)]_vars

\* C37: a mutation saved through the debounced path schedules a write about
\* 500 ms later; further mutations before the timer fires cancel and re-arm
\* it, so that they coalesce into one write with the latest in-memory state;
\* on graceful shutdown the pending write is forced synchronously, after
\* which the persisted content equals the in-memory state and no write timer
\* remains pending.
C37_WriteBehind ==
    /\ Debounced
    /\ [](wbPhase # "run" => (wbFile = wbKeys /\ wbSaveTimer = 0))

\* the debounce is as claimed, and flushSync itself leaves the file equal to
\* the keys and no timer armed
C37_FlushAtShutdown ==
    /\ Debounced
    /\ [][WbShutdown => (wbFile' = wbKeys' /\ wbSaveTimer' = 0)]_vars

\* after the shutdown the file stays equal to the keys and no timer is armed
\* as long as no request saves and no earlier write is still under way
C37_QuietShutdown ==
    [][(wbPhase # "run" /\ wbFile = wbKeys /\ wbSaveTimer = 0 /\ wbWriting = {}
          /\ ~WbSave /\ ~WbSaveSync)
         => (wbFile' = wbKeys' /\ wbSaveTimer' = 0)]_vars

(***************************************************************************)
(* C38: token usage consistency                                            *)
(***************************************************************************)
RECURSIVE SumOverDays(_, _)
SumOverDays(Amount(_), days) ==
    IF days = {} THEN 0
    ELSE LET d == CHOOSE x \in days : TRUE
         IN  Amount(d) + SumOverDays(Amount, days \ {d})

\* the totals of every token agree with its days
UsageConsistent ==
    \A id \in TokenIds :
        uTokens[id].present =>
            /\ uTokens[id].totalRequests =
                  SumOverDays(LAMBDA d : uStats[id][d].requests, Days)
            /\ uTokens[id].totalTokens =
                  SumOverDays(LAMBDA d : uStats[id][d].promptTokens
                                          + uStats[id][d].completionTokens, Days)
            /\ uTokens[id].quotaUsed <= uTokens[id].totalTokens

\* C38: after any sequence of createToken, recordUsage, updateToken and
\* quota resets from an empty registry, for every token totalRequests is the
\* sum of its per-day requests, totalTokens the sum of its per-day
\* promptTokens + completionTokens, and quotaUsed <= totalTokens;
\* recordUsage for an unknown token id changes nothing.
C38_UsageConsistency ==
    /\ []UsageConsistent
    /\ [][\A id \in TokenIds, a \in UsageAmounts :
            (URecordUsage(id, a[1], a[2]) /\ ~uTokens[id].present) =>
                UNCHANGED <<uTokens, uStats>>]_vars

\* a token used on two days with its quota reset in between, and a call of
\* recordUsage for an id that is not registered
C38_Witness ==
    /\ uRet.op = "recordUsage" /\ ~uTokens[uRet.id].present
    /\ \E id \in TokenIds :
          /\ uTokens[id].present
          /\ uTokens[id].totalRequests = 2
          /\ uTokens[id].quotaUsed > 0
          /\ uTokens[id].quotaUsed < uTokens[id].totalTokens
          /\ \E d1 \in Days, d2 \in Days :
                d1 # d2 /\ uStats[id][d1].requests = 1 /\ uStats[id][d2].requests = 1

(***************************************************************************)
(* C39: backend counters                                                   *)
(***************************************************************************)
\* 0 <= failedRequests <= totalRequests
CountersInOrder(backend) ==
    0 <= backend.failedRequests /\ backend.failedRequests <= backend.totalRequests

\* neither counter of the backend is lower afterwards
NotDecreased(before, after) ==
    /\ after.totalRequests >= before.totalRequests
    /\ after.failedRequests >= before.failedRequests

SameCounters(before, after) ==
    /\ after.totalRequests = before.totalRequests
    /\ after.failedRequests = before.failedRequests

\* the credential with this id before and after the step, when it is in the
\* store at both ends
Surviving(id) ==
    /\ \E i \in 1..Len(storeKeys) : storeKeys[i].id = id
    /\ \E i \in 1..Len(storeKeys') : storeKeys'[i].id = id

CredBefore(id) == storeKeys[CHOOSE i \in 1..Len(storeKeys) : storeKeys[i].id = id]
CredAfter(id) == storeKeys'[CHOOSE i \in 1..Len(storeKeys') : storeKeys'[i].id = id]

\* a step of resetHealth, of a health check or of a toggle
HealthOrToggleStep ==
    \/ StoreResetHealth
    \/ \E id \in AdminIds, ok \in BOOLEAN : StoreHealthChecked(id, ok)
    \/ \E id \in AdminIds : StoreToggleKey(id)
    \/ QResetHealth
    \/ \E c \in Channels, ok \in BOOLEAN : QHealthProbe(c, ok)
    \/ \E c \in Channels, enabled \in BOOLEAN : QUpdateEnabled(c, enabled)

\* C39: in every reachable state, for every credential and every channel,
\* 0 <= failedRequests <= totalRequests, and neither counter ever decreases
\* while the credential or channel exists; resetHealth, health checks and
\* toggles leave both counters unchanged.
C39_BackendCounters ==
    /\ [](/\ \A i \in 1..Len(storeKeys) : CountersInOrder(storeKeys[i])
          /\ \A c \in Channels : CountersInOrder(qChannels[c]))
    /\ [][/\ \A id \in AdminIds :
               Surviving(id) => NotDecreased(CredBefore(id), CredAfter(id))
          /\ \A c \in Channels : NotDecreased(qChannels[c], qChannels'[c])]_vars
    /\ [][HealthOrToggleStep =>
             /\ \A id \in AdminIds :
                   Surviving(id) => SameCounters(CredBefore(id), CredAfter(id))
             /\ \A c \in Channels : SameCounters(qChannels[c], qChannels'[c])]_vars

\* a credential that has failed once in two requests, since disabled and
\* with its health reset
C39_Witness ==
    /\ storeRet = NoReturn
    /\ \E i \in 1..Len(storeKeys) :
          /\ storeKeys[i].totalRequests = 2 /\ storeKeys[i].failedRequests = 1
          /\ ~storeKeys[i].enabled /\ storeKeys[i].healthy /\ ~storeKeys[i].lastError

(***************************************************************************)
(* C40: LRU cache bound                                                    *)
(***************************************************************************)
\* the keys the cache holds
Cached(cache) == {cache[i].key : i \in 1..Len(cache)}

\* of the keys the cache holds, the one whose last use is the oldest
LeastRecentlyUsed ==
    LET held == SelectSeq(lruUsed, LAMBDA k : k \in Cached(lruCache))
    IN  held[1]

\* set of a key the cache does not hold, at capacity: one entry goes, the
\* least recently used one
EvictedAsClaimed(key) ==
    (key \notin Cached(lruCache) /\ Len(lruCache) = lruMaxSize) =>
        /\ Cached(lruCache') = (Cached(lruCache) \ {LeastRecentlyUsed}) \cup {key}
        /\ Len(lruCache') = lruMaxSize

\* get has returned the stored value of a present unexpired key, and null
\* otherwise
ReturnedAsClaimed(key) ==
    LET i == PositionOf(lruCache, key)
    IN  lruRet'.value = IF i # 0 /\ lruNow - lruCache[i].timestamp <= MaxAge
                        THEN lruCache[i].value ELSE 0

\* C40: an LRUCache with maxSize >= 1 never holds more than maxSize entries
\* after any sequence of set, get, delete, cleanup and clear; inserting a new
\* key at capacity evicts exactly one entry, the least recently used one,
\* where both set and a successful get count as a use; get returns the
\* stored value for a present unexpired key and null otherwise.
C40_LruBound ==
    /\ [](lruMaxSize >= 1 => Len(lruCache) <= lruMaxSize)
    /\ [][\A key \in CacheKeys, value \in CacheValues :
             LruSet(key, value) => EvictedAsClaimed(key)]_vars
    /\ [][\A key \in CacheKeys : LruGet(key) => ReturnedAsClaimed(key)]_vars

\* a full cache of two whose older entry was read before a third key was
\* set: the entry set later has gone, the one read is still there
C40_Witness ==
    /\ lruMaxSize = 2 /\ Len(lruCache) = 2
    /\ lruRet.op = "set"
    /\ lruUsed = <<"b", "a", "c">>
    /\ Cached(lruCache) = {"a", "c"}
    /\ lruCache[1].timestamp < lruCache[2].timestamp

====
